---- MODULE Spec2Model ----
(***************************************************************************)
(* Model of the guijs server-core plugin connector                         *)
(* (packages/@guijs/server-core/src/connectors/plugins.js): plugin         *)
(* discovery (list), the plugin API reset protocol (resetPluginApi), the   *)
(* module loader (runPluginApi), the hook and action dispatchers and the   *)
(* install / uninstall / invoke / update operations.                       *)
(***************************************************************************)
EXTENDS Integers, Sequences, FiniteSets, TLC

VARIABLES
    manifest,            \* disk: the package.json folders.readPackage returns, per workspace
    projectOf,           \* projects connector: what projects.findByPath returns, per workspace
    pkgStore,            \* const pkgStore = new Map()
    pluginsStore,        \* const pluginsStore = new Map()
    pluginApiInstances,  \* const pluginApiInstances = new Map()   (file -> index into apis)
    apis,                \* the PluginApi objects ever constructed (the heap)
    reg,                 \* external registries: views, ipc handlers, client addons, widgets
    resets,              \* resetPluginApi calls: position of each pending promise
    tornDown,            \* history: the PluginApi objects the clean-up block has run on
    listHist,            \* history: per workspace, the previous return of list
    last,                \* history: what the step just taken returned / resolved
    currentPluginId,     \* let currentPluginId
    installationStep,    \* let installationStep
    ops,                 \* progress connector: per progress id, the operation it wraps
    opCount,         \* history: the lifecycle operations started so far
    calls,               \* callAction calls: position, results and errors of each
    published,           \* context.pubsub: the plugin-action events published, in order
    commands,            \* schema/command: export const commands: MetaCommand[] = []
    commandsMap,         \* schema/command: export const commandsMap = new Map()
    searchIndexes,       \* schema/command: one index per CommandType
    globalSearchIndex,   \* schema/command: const globalSearchIndex = createIndex()
    cmdLog,              \* consola.warn, handler calls and 'commandRan' events, in order
    cmdLast              \* history: what the latest searchCommands / runCommand returned

lifeVars == <<currentPluginId, installationStep, ops, opCount>>
cmdVars == <<commands, commandsMap, searchIndexes, globalSearchIndex, cmdLog, cmdLast>>
actVars == <<calls, published, cmdVars>>

vars == <<manifest, projectOf, pkgStore, pluginsStore, pluginApiInstances, apis, reg,
          resets, tornDown, listHist, last, currentPluginId, installationStep, ops,
          opCount, calls, published, commands, commandsMap, searchIndexes,
          globalSearchIndex, cmdLog, cmdLast>>

\* the state of the plugins connector
pluginVars == <<manifest, projectOf, pkgStore, pluginsStore, pluginApiInstances, apis, reg,
                resets, tornDown, listHist, last, lifeVars, calls, published>>

----------------------------------------------------------------------------
(* Bounds *)

\* resetPluginApi calls in one behaviour
MaxResets == 2

\* lifecycle operations started in one behaviour
MaxOps == 2

\* callAction calls in one behaviour
MaxCalls == 2

\* addCommand calls in one behaviour, with commands of any shape
MaxAdds == 3

\* addCommand calls in one behaviour, when a long run of commands is registered
MaxBulk == 23

\* runCommand calls in one behaviour
MaxRuns == 2

----------------------------------------------------------------------------
(* Program constants and the fixed environment *)

CLI_SERVICE == "@vue/cli-service"
VUEDESK_BUILD_BUNDLE == "vuedesk-build-bundle"
BUILTIN_PLUGIN == "@guijs/builtin-plugin"

Files == {"w1"}

NoProject == [id |-> "none", type |-> "none"]
Projects == { [id |-> "p1", type |-> "vue"],
              [id |-> "p2", type |-> "vue"],
              [id |-> "p3", type |-> "other"] }

\* JS Map operations
MapHas(m, k) == k \in DOMAIN m
MapSet(m, k, v) == [x \in (DOMAIN m) \cup {k} |-> IF x = k THEN v ELSE m[x]]
EmptyMap == [x \in {} |-> 0]

\* package.json contents. Dependencies are kept in key order; vuedesk is the
\* bundled-plugin declaration, ui the vuePlugins.ui list of local files.
Dep(id, range) == [id |-> id, range |-> range]
Pkg(dev, deps, hasVuedesk, bundled, ui) ==
    [devDependencies |-> dev, dependencies |-> deps,
     vuedesk |-> [present |-> hasVuedesk, version |-> "1.0", plugins |-> bundled],
     ui |-> ui]

PkgEmpty == Pkg(<<>>, <<>>, FALSE, <<>>, <<>>)
PkgPlain == Pkg(<<Dep("vue-cli-plugin-a", "^1.0"), Dep(CLI_SERVICE, "^4.0")>>,
                <<Dep("lodash", "^4.0")>>, FALSE, <<>>, <<>>)
PkgBundle == Pkg(<<Dep("vue-cli-plugin-a", "^1.0")>>, <<>>, TRUE, <<"babel">>, <<"local.js">>)
Manifests == {PkgEmpty, PkgPlain, PkgBundle}

\* @vue/cli-shared-utils isPlugin / isOfficialPlugin on the ids in use
isPlugin(id) == id \in {"vue-cli-plugin-a", "@vue/cli-plugin-babel"}
isOfficialPlugin(id) == id \in {"@vue/cli-plugin-babel"}

----------------------------------------------------------------------------
(* Sequence helpers *)

RECURSIVE SelectNotHidden(_)
SelectNotHidden(s) ==
    IF s = <<>> THEN <<>>
    ELSE IF s[1].hidden THEN SelectNotHidden(Tail(s))
         ELSE <<s[1]>> \o SelectNotHidden(Tail(s))

RECURSIVE FindIndex(_, _, _)
FindIndex(s, ids, i) ==
    IF i > Len(s) THEN 0
    ELSE IF s[i].id \in ids THEN i ELSE FindIndex(s, ids, i + 1)

Range(s) == {s[i] : i \in DOMAIN s}

Ids(s) == [i \in DOMAIN s |-> s[i].id]

----------------------------------------------------------------------------
(* Discovery: the plugin list that list() derives from a package.json *)

\* `@vue/cli-plugin-${id}`
BundledId(id) == IF id = "babel" THEN "@vue/cli-plugin-babel" ELSE id

\* findPlugins: one record per dependency that is a plugin or the cli service.
\* (installed is fs.existsSync of the package folder: every declared plugin is on disk.)
RECURSIVE findPlugins(_, _)
findPlugins(deps, file) ==
    IF deps = <<>> THEN <<>>
    ELSE LET d == deps[1]
             rest == findPlugins(Tail(deps), file)
         IN  IF isPlugin(d.id) \/ d.id = CLI_SERVICE
             THEN <<[id |-> d.id, versionRange |-> d.range,
                     official |-> (isOfficialPlugin(d.id) \/ d.id = CLI_SERVICE),
                     installed |-> TRUE, baseDir |-> file, hidden |-> FALSE]>> \o rest
             ELSE rest

\* pkg.vuedesk.plugins.map(...): the hidden members of the bundle
BundleMembers(pkg, file) ==
    [i \in DOMAIN pkg.vuedesk.plugins |->
        [id |-> BundledId(pkg.vuedesk.plugins[i]), versionRange |-> pkg.vuedesk.version,
         official |-> TRUE, installed |-> TRUE, baseDir |-> file, hidden |-> TRUE]]

\* "Put cli service at the top"
PutServiceFirst(plugins) ==
    LET index == FindIndex(plugins, {CLI_SERVICE, VUEDESK_BUILD_BUNDLE}, 1)
    IN  IF index = 0 THEN plugins
        ELSE <<plugins[index]>> \o SubSeq(plugins, 1, index - 1)
                                \o SubSeq(plugins, index + 1, Len(plugins))

\* the local `plugins` of list() just before it is compared with the stored list
Discover(pkg, file) ==
    LET found == findPlugins(pkg.devDependencies, file) \o findPlugins(pkg.dependencies, file)
        withBundle ==
            IF pkg.vuedesk.present
            THEN found
                 \o <<[id |-> VUEDESK_BUILD_BUNDLE, versionRange |-> pkg.vuedesk.version,
                       official |-> TRUE, installed |-> TRUE, baseDir |-> file,
                       hidden |-> FALSE]>>
                 \o BundleMembers(pkg, file)
            ELSE found
    IN  PutServiceFirst(withBundle)

getPlugins(file) == IF MapHas(pluginsStore, file) THEN pluginsStore[file] ELSE <<>>

\* plugins.filter(p => !p.hidden)
VisiblePlugins(plugins) == SelectNotHidden(plugins)

\* what list() returns when the discovered list deep-equals the stored one
CachedListReturn(oldPlugins) == oldPlugins

----------------------------------------------------------------------------
(* Plugin modules: what loadModule finds for `${id}/ui` and what the module *)
(* registers on the PluginApi it is invoked with                            *)

HookIds == {"projectOpen", "pluginReload", "taskRun"}

LocalUi == "w1/ui"

\* missing: loadModule yields nothing; notfn: a non-function export;
\* throws: the module function throws; ok: it returns
ModuleKind(id) ==
    CASE id = BUILTIN_PLUGIN -> "ok"
      [] id = "vue-cli-plugin-a" -> "ok"
      [] id = "@vue/cli-plugin-babel" -> "throws"
      [] id = LocalUi -> "ok"
      [] id = VUEDESK_BUILD_BUNDLE -> "notfn"
      [] OTHER -> "missing"

NoHooks == [h \in HookIds |-> <<>>]

Contrib(views, ipc, hooks, actions, widgetDefs, addons) ==
    [views |-> views, ipc |-> ipc, hooks |-> hooks, actions |-> actions,
     widgetDefs |-> widgetDefs, addons |-> addons]

\* the registrations each module makes (api.addView, api.ipcOn, api.onProjectOpen,
\* api.onAction, api.registerWidget, api.addClientAddon); for a module that throws,
\* the ones it made before it threw
Contribution(id) ==
    CASE id = BUILTIN_PLUGIN ->
            Contrib(<<>>, <<>>,
                    [NoHooks EXCEPT !["projectOpen"] = <<"ob">>, !["taskRun"] = <<"tb">>],
                    <<[id |-> "act", fn |-> "ab"]>>, <<>>, <<>>)
      [] id = "vue-cli-plugin-a" ->
            Contrib(<<"va">>, <<"ia">>,
                    [NoHooks EXCEPT !["pluginReload"] = <<"ra">>, !["taskRun"] = <<"ta">>],
                    <<[id |-> "act", fn |-> "aa"]>>, <<"wa">>, <<"ca">>)
      [] id = "@vue/cli-plugin-babel" ->
            Contrib(<<>>, <<>>,
                    [NoHooks EXCEPT !["projectOpen"] = <<"ox">>, !["taskRun"] = <<"tx">>],
                    <<>>, <<>>, <<>>)
      [] id = LocalUi ->
            Contrib(<<"vl">>, <<>>, NoHooks, <<>>, <<>>, <<>>)
      [] OTHER -> Contrib(<<>>, <<>>, NoHooks, <<>>, <<>>, <<>>)

\* hook handlers that throw when invoked
HookThrows(fn) == fn \in {"ta", "ox"}

\* new PluginApi({ plugins, file, project, lightMode }, context)
NewPluginApi(plugins, file, project, lightMode) ==
    [plugins |-> plugins, file |-> file, project |-> project, lightMode |-> lightMode,
     pluginId |-> "null", views |-> <<>>, ipcHandlers |-> <<>>, hooks |-> NoHooks,
     actions |-> EmptyMap, widgetDefs |-> <<>>, clientAddons |-> <<>>,
     loaded |-> <<>>, marks |-> <<>>]

RECURSIVE AddActions(_, _)
AddActions(actions, regs) ==
    IF regs = <<>> THEN actions
    ELSE LET r == regs[1]
             cur == IF MapHas(actions, r.id) THEN actions[r.id] ELSE <<>>
         IN  AddActions(MapSet(actions, r.id, Append(cur, r.fn)), Tail(regs))

\* line 278: pluginApi.pluginId = id
SetMarker(st, id) == [st EXCEPT !.api.pluginId = id]

\* a marker cleared inside the try block: a module that throws leaves it set
ClearMarkerOnReturn(st, kind) ==
    IF kind = "throws" THEN st ELSE [st EXCEPT !.api.pluginId = "null"]

\* line 289: pluginApi.pluginId = null, after the try / catch
ClearMarker(st, kind) == [st EXCEPT !.api.pluginId = "null"]

\* history kept on the PluginApi: for each runPluginApi call, the marker the module
\* saw while it ran (seen, "none" for a module that was not invoked) and the
\* marker when runPluginApi returned
LogMarker(st, modId, seen) ==
    [st EXCEPT !.api.marks = Append(st.api.marks,
                                    [id |-> modId, seen |-> seen, after |-> st.api.pluginId])]

\* lines 278-289: module(pluginApi) between the two assignments of the marker. The
\* registrations land on the PluginApi object; ipcOn also registers the handler
\* with the ipc server. st = [api, ipc], n = the api's identity.
InvokeModule(id, modId, st, n) ==
    LET c == Contribution(modId)
        marked == SetMarker(st, id)
        a == marked.api
        ran == [api |-> [a EXCEPT !.views = a.views \o c.views,
                                  !.ipcHandlers = a.ipcHandlers \o c.ipc,
                                  !.hooks = [h \in HookIds |-> a.hooks[h] \o c.hooks[h]],
                                  !.actions = AddActions(a.actions, c.actions),
                                  !.widgetDefs = a.widgetDefs \o c.widgetDefs,
                                  !.clientAddons = a.clientAddons \o c.addons],
                ipc |-> st.ipc \cup {<<n, c.ipc[i]>> : i \in DOMAIN c.ipc}]
    IN  LogMarker(ClearMarker(ran, ModuleKind(modId)), modId, ran.api.pluginId)

\* history kept on the PluginApi: the runPluginApi calls made with it, in order
LogLoad(st, modId, kind, invoked) ==
    [st EXCEPT !.api.loaded = Append(st.api.loaded,
                                     [id |-> modId, kind |-> kind, invoked |-> invoked])]

\* runPluginApi(id, file, pluginApi, cwd, context): a module that cannot be loaded
\* or exports no function is skipped, one that throws is caught; nothing propagates
runPluginApi(id, modId, st, n) ==
    LET kind == ModuleKind(modId)
    IN  IF kind = "missing" THEN LogLoad(LogMarker(st, modId, "none"), modId, kind, FALSE)
        ELSE IF kind = "notfn" THEN LogLoad(LogMarker(st, modId, "none"), modId, kind, FALSE)
        ELSE LogLoad(InvokeModule(id, modId, st, n), modId, kind, TRUE)

\* a loop that a failing module ends
RECURSIVE RunPluginsStopAtFailure(_, _, _)
RunPluginsStopAtFailure(plugins, st, n) ==
    IF plugins = <<>> THEN st
    ELSE IF ModuleKind(plugins[1].id) # "ok" THEN LogLoad(st, plugins[1].id, "failed", FALSE)
    ELSE RunPluginsStopAtFailure(Tail(plugins),
                                 runPluginApi(plugins[1].id, plugins[1].id, st, n), n)

RECURSIVE RunPlugins(_, _, _)
RunPlugins(plugins, st, n) ==
    IF plugins = <<>> THEN st
    ELSE RunPlugins(Tail(plugins), runPluginApi(plugins[1].id, plugins[1].id, st, n), n)

\* for (const file of files) runPluginApi(pkgContext, `${pkgContext}/ui`, ...)
RECURSIVE RunLocal(_, _, _)
RunLocal(files, st, n) ==
    IF files = <<>> THEN st
    ELSE RunLocal(Tail(files), runPluginApi(LocalUi, LocalUi, st, n), n)

----------------------------------------------------------------------------
(* Hook dispatch *)

\* a dispatcher that isolates each handler and goes on, as callAction does
ForEachHandlerIsolated(fns, i) == [invoked |-> fns, threw |-> FALSE]

\* fns.forEach(fn => fn(...args)): the handlers invoked, up to and including the
\* first one that throws (forEach does not catch)
RECURSIVE ForEachHandler(_, _)
ForEachHandler(fns, i) ==
    IF i > Len(fns) THEN [invoked |-> fns, threw |-> FALSE]
    ELSE IF HookThrows(fns[i]) THEN [invoked |-> SubSeq(fns, 1, i), threw |-> TRUE]
    ELSE ForEachHandler(fns, i + 1)

\* getApi(folder): the index of the instance, 0 for undefined
getApi(instances, folder) == IF MapHas(instances, folder) THEN instances[folder] ELSE 0

\* callHook({ id, args, file }, context) against the given map and heap
callHook(id, file, instances, heap) ==
    LET n == getApi(instances, file)
    IN  IF n = 0
        THEN [noop |-> TRUE, api |-> 0, invoked |-> <<>>, threw |-> FALSE]
        ELSE LET res == ForEachHandler(heap[n].hooks[id], 1)
             IN  [noop |-> FALSE, api |-> n, invoked |-> res.invoked, threw |-> res.threw]

----------------------------------------------------------------------------
(* The reset protocol: resetPluginApi *)

NoCont == [op |-> "none"]

\* the progress ids the lifecycle operations are wrapped under
PROGRESS_ID == "plugin-installation"
UPDATE_ID == "plugin-update"
UPDATE_ALL_ID == "plugins-update"
ProgressIds == {PROGRESS_ID, UPDATE_ID, UPDATE_ALL_ID}

\* no operation is wrapped under the progress id
IdleOp ==
    [kind |-> "none", id |-> "", pc |-> "idle", local |-> FALSE, ext |-> <<>>,
     plugins |-> <<>>, versions |-> <<>>, updated |-> <<>>, started |-> <<>>]

\* a lifecycle operation ends: it returns or rejects, with or without notify(...)
OpDone(kind, id, outcome, notified) ==
    [kind |-> kind, id |-> id, outcome |-> outcome, notified |-> notified]

\* no list() has returned for the workspace yet
NoListHist == [called |-> FALSE, pkg |-> PkgEmpty, ret |-> <<>>]

\* a step that returns nothing to anybody
NoEvent == [op |-> "none", reset |-> NoCont, list |-> NoCont]

\* a reset whose promise has settled (resolved) or whose callback threw (thrown:
\* the promise stays pending for ever)
ClosedReset(pc) ==
    [file |-> "", lightApi |-> FALSE, projectId |-> "", prior |-> 0, pc |-> pc, api |-> 0,
     project |-> NoProject, i |-> 0, result |-> FALSE, viewsApplied |-> 0,
     widgetsApplied |-> 0, fired |-> <<>>, widgetsLoaded |-> FALSE, cont |-> NoCont]

\* the comparison the wrong way round
ResetHookIdSwapped(projectId, project) ==
    IF projectId = project.id THEN "projectOpen" ELSE "pluginReload"

\* the hook the reset fires: if (projectId !== project.id) projectOpen else pluginReload
ResetHookId(projectId, project) ==
    IF projectId # project.id THEN "projectOpen" ELSE "pluginReload"

\* lines 230-256: light mode resolves at once; otherwise one hook, then widgets.load
FinishReset(rec, instances, heap) ==
    IF rec.lightApi
    THEN [rec EXCEPT !.pc = "resolved", !.result = TRUE]
    ELSE LET hookId == ResetHookId(rec.projectId, rec.project)
             h == callHook(hookId, rec.file, instances, heap)
             fire == [id |-> hookId, viewsApplied |-> rec.viewsApplied,
                      widgetsApplied |-> rec.widgetsApplied,
                      views |-> Len(heap[rec.api].views),
                      widgetDefs |-> Len(heap[rec.api].widgetDefs)]
         IN  IF h.threw
             THEN [rec EXCEPT !.pc = "thrown", !.fired = Append(rec.fired, fire)]
             ELSE [rec EXCEPT !.pc = "resolved", !.result = TRUE,
                              !.fired = Append(rec.fired, fire), !.widgetsLoaded = TRUE]

\* the callback runs on from rec.pc until its next await, or to its end
ResumeReset(rec, instances, heap) ==
    LET api == heap[rec.api]
        toWidgets == [rec EXCEPT !.pc = "widgets", !.i = 1]
    IN  IF rec.pc = "views" /\ rec.i <= Len(api.views) THEN rec
        ELSE IF rec.pc = "views"
             THEN IF Len(api.widgetDefs) >= 1 THEN toWidgets
                  ELSE FinishReset(toWidgets, instances, heap)
        ELSE IF rec.i <= Len(api.widgetDefs) THEN rec
        ELSE FinishReset(rec, instances, heap)

\* an updateAll that takes every plugin for outdated
PushOutdatedAlways(updated, plugin, outdated) == Append(updated, plugin)

\* lines 601-604: if (version.current !== version.wanted) updatedPlugins.push(plugin)
PushOutdated(updated, plugin, outdated) == IF outdated THEN Append(updated, plugin) ELSE updated

\* lines 621-623: updatePackage(cwd, command, null, updatedPlugins.map(p => p.id).join(' '))
UpdatePackageCall(updated) ==
    [call |-> "updatePackage", ids |-> [i \in DOMAIN updated |-> updated[i].id],
     status |-> "pending"]

\* updateAll once its loop over the plugins has ended, lines 607-623: nothing to
\* update ends the operation, anything else calls the package manager
UpdateAllAfterLoop(op) ==
    IF op.updated = <<>> THEN [op EXCEPT !.pc = "done"]
    ELSE [op EXCEPT !.pc = "updating", !.ext = <<UpdatePackageCall(op.updated)>>]

\* updateAll once list has returned: the loop awaits getVersion for the first plugin
UpdateAllAfterList(op, ret) ==
    IF ret = <<>> THEN UpdateAllAfterLoop([op EXCEPT !.plugins = ret])
    ELSE [op EXCEPT !.plugins = ret, !.pc = "getVersion"]

\* updateAll returns or rejects, or (outcome returned, not yet done) goes on
UpdateAllEvent(op, outcome, done) ==
    IF done
    THEN [op |-> "lifecycle", reset |-> NoCont, list |-> NoCont,
          done |-> OpDone("updateAll", "", outcome, outcome = "returned"), call |-> op]
    ELSE NoEvent

\* list() returns: the history of the workspace's latest return
ListReturns(info) ==
    listHist' = [listHist EXCEPT ![info.file] =
                    [called |-> TRUE, pkg |-> info.pkg, ret |-> info.ret]]

\* the reset's promise settles, or the callback suspends: the pending-call table,
\* and the continuation of whoever awaits the promise (list, update)
SettleReset(r, rec) ==
    /\ resets' = [resets EXCEPT ![r] = IF rec.pc \in {"views", "widgets"} THEN rec
                                       ELSE ClosedReset(rec.pc)]
    /\ IF rec.pc = "resolved" /\ rec.cont.op = "list"
       THEN /\ last' = [op |-> "resetResolved", reset |-> rec, list |-> rec.cont]
            /\ ListReturns(rec.cont)
            /\ UNCHANGED lifeVars
       ELSE IF rec.pc = "resolved" /\ rec.cont.op = "update"
       THEN \* lines 573-576: currentPluginId = null; return findOne(...)
            /\ last' = [op |-> "resetResolved", reset |-> rec, list |-> NoCont,
                        done |-> OpDone("update", rec.cont.id, "returned", TRUE)]
            /\ currentPluginId' = "null"
            /\ ops' = [ops EXCEPT ![UPDATE_ID] = IdleOp]
            /\ UNCHANGED <<listHist, installationStep, opCount>>
       ELSE IF rec.pc = "resolved" /\ rec.cont.op = "updateAllList"
       THEN \* list returns to updateAll, which goes on to its loop
            LET next == UpdateAllAfterList(ops[UPDATE_ALL_ID], rec.cont.ret)
            IN  /\ ListReturns(rec.cont)
                /\ ops' = [ops EXCEPT ![UPDATE_ALL_ID] =
                              IF next.pc = "done" THEN IdleOp ELSE next]
                /\ last' = [UpdateAllEvent(next, "returned", next.pc = "done")
                               EXCEPT !.op = "resetResolved", !.reset = rec]
                /\ UNCHANGED <<currentPluginId, installationStep, opCount>>
       ELSE IF rec.pc = "resolved" /\ rec.cont.op = "updateAllReset"
       THEN \* line 633: return updatedPlugins
            /\ ops' = [ops EXCEPT ![UPDATE_ALL_ID] = IdleOp]
            /\ last' = [UpdateAllEvent([ops[UPDATE_ALL_ID] EXCEPT !.pc = "done"],
                                        "returned", TRUE)
                           EXCEPT !.op = "resetResolved", !.reset = rec]
            /\ UNCHANGED <<listHist, currentPluginId, installationStep, opCount>>
       ELSE /\ last' = IF rec.pc = "resolved"
                       THEN [op |-> "resetResolved", reset |-> rec, list |-> NoCont]
                       ELSE IF rec.pc = "thrown"
                       THEN [op |-> "resetThrew", reset |-> rec, list |-> NoCont]
                       ELSE NoEvent
            /\ UNCHANGED <<listHist, lifeVars>>

\* views.remove(r.id) for each view, ipc.off(fn) for each handler
Teardown(n, registry) ==
    [registry EXCEPT !.views = registry.views \ Range(apis[n].views),
                     !.ipc = registry.ipc \ {<<n, apis[n].ipcHandlers[i]>> :
                                               i \in DOMAIN apis[n].ipcHandlers}]

\* clientAddons.clear, suggestions.clear, widgets.reset
ClearShared(registry) == [registry EXCEPT !.addons = {}, !.widgets = {}]

\* lines 156-178: the synchronous part of resetPluginApi, up to setTimeout
StartReset(file, lightApi, cont) ==
    LET n == getApi(pluginApiInstances, file)
        cleaned == IF n # 0 THEN Teardown(n, reg) ELSE reg
    IN  /\ Len(resets) < MaxResets
        /\ tornDown' = IF n # 0 THEN tornDown \cup {n} ELSE tornDown
        /\ reg' = IF lightApi THEN cleaned ELSE ClearShared(cleaned)
        /\ resets' = Append(resets,
              [ClosedReset("timer") EXCEPT
                  !.file = file, !.lightApi = lightApi,
                  !.projectId = IF n # 0 THEN apis[n].project.id ELSE "undefined",
                  !.prior = n,
                  !.cont = cont])
        /\ UNCHANGED <<apis, pluginApiInstances>>

----------------------------------------------------------------------------
(* The command registry: schema/command/index.ts                           *)
(* A text is a sequence of characters, a label a sequence of words.        *)

CommandTypes == {"help", "action", "project", "package", "config", "script"}

\* const typeWords = { '?': CommandType.Help, ... }
typeWords ==
    ("?" :> "help") @@ (">" :> "action") @@ ("<" :> "project") @@
    ("&" :> "package") @@ ("~" :> "config") @@ ("$" :> "script")

\* getRecentCommands: list.slice(0, 20)
RECENT_LIMIT == 20

\* lastUsed of a command that has none
NoLastUsed == 0

Command(id, type, label, hidden, lastUsed, handler) ==
    [id |-> id, type |-> type, label |-> label, hidden |-> hidden,
     lastUsed |-> lastUsed, handler |-> handler]

\* the index pipeline's trimmer takes the non-word characters off a token's ends
WordChars == {"a", "b", "f", "o"}

RECURSIVE TrimLeft(_)
TrimLeft(tok) ==
    IF tok = <<>> THEN <<>>
    ELSE IF tok[1] \in WordChars THEN tok ELSE TrimLeft(Tail(tok))

RECURSIVE TrimRight(_)
TrimRight(tok) ==
    IF tok = <<>> THEN <<>>
    ELSE IF tok[Len(tok)] \in WordChars THEN tok
    ELSE TrimRight(SubSeq(tok, 1, Len(tok) - 1))

Trim(tok) == TrimRight(TrimLeft(tok))

\* the tokens an index keeps for a label: trimmed, the empty ones dropped
RECURSIVE Tokens(_)
Tokens(label) ==
    IF label = <<>> THEN <<>>
    ELSE (IF Trim(label[1]) = <<>> THEN <<>> ELSE <<Trim(label[1])>>) \o Tokens(Tail(label))

\* expand: true, the query word matches the tokens it is a prefix of
StartsWith(tok, q) == Len(q) <= Len(tok) /\ SubSeq(tok, 1, Len(q)) = q

\* index.addDoc(cmd): setRef('id'), addField('label')
AddDoc(index, cmd) == Append(index, [ref |-> cmd.id, tokens |-> Tokens(cmd.label)])

\* an addCommand that indexes every command
IndexCommandAlways(index, cmd) == AddDoc(index, cmd)

\* lines 62-65: if (!cmd.hidden) index.addDoc(cmd)
IndexCommand(index, cmd) == IF ~cmd.hidden THEN AddDoc(index, cmd) ELSE index

RECURSIVE SelectMatching(_, _)
SelectMatching(index, q) ==
    IF index = <<>> THEN <<>>
    ELSE (IF \E i \in DOMAIN index[1].tokens : StartsWith(index[1].tokens[i], q)
          THEN <<index[1].ref>> ELSE <<>>)
         \o SelectMatching(Tail(index), q)

\* searchIndex.search(text, { fields: { label: { boost: 2, expand: true } } }): the
\* refs of the documents that match
IndexSearch(index, text) ==
    IF Trim(text) = <<>> THEN <<>> ELSE SelectMatching(index, Trim(text))

\* a dispatch that knows no prefix
getSeachTypeNone(text) == "null"

\* getSeachType(text): typeWordReg = /^(\?|\>|\<|\&|\~|\$)/
getSeachType(text) ==
    IF text # <<>> /\ text[1] \in DOMAIN typeWords THEN typeWords[text[1]] ELSE "null"

\* list.filter(c => !c.hidden && c.type === type), or without the help commands
RECURSIVE RecentFilter(_, _)
RecentFilter(list, type) ==
    IF list = <<>> THEN <<>>
    ELSE LET c == list[1]
             keep == IF type # "null" THEN ~c.hidden /\ c.type = type
                     ELSE ~c.hidden /\ c.type # "help"
         IN  (IF keep THEN <<c>> ELSE <<>>) \o RecentFilter(Tail(list), type)

\* a comparator that ranks the oldest use first
CompareRecentAscending(a, b) ==
    IF a.lastUsed # NoLastUsed /\ b.lastUsed # NoLastUsed THEN a.lastUsed - b.lastUsed
    ELSE IF a.lastUsed # NoLastUsed THEN 0 - 1
    ELSE IF b.lastUsed # NoLastUsed THEN 1
    ELSE 0

\* the comparator of list.sort, lines 114-123
CompareRecent(a, b) ==
    IF a.lastUsed # NoLastUsed /\ b.lastUsed # NoLastUsed THEN b.lastUsed - a.lastUsed
    ELSE IF a.lastUsed # NoLastUsed THEN 0 - 1
    ELSE IF b.lastUsed # NoLastUsed THEN 1
    ELSE 0

\* Array.prototype.sort is stable: x goes behind everything that does not sort after it
RECURSIVE InsertSorted(_, _)
InsertSorted(sorted, x) ==
    IF sorted = <<>> THEN <<x>>
    ELSE IF CompareRecent(sorted[1], x) <= 0 THEN <<sorted[1]>> \o InsertSorted(Tail(sorted), x)
    ELSE <<x>> \o sorted

RECURSIVE SortRecent(_, _)
SortRecent(list, sorted) ==
    IF list = <<>> THEN sorted
    ELSE SortRecent(Tail(list), InsertSorted(sorted, list[1]))

\* a recent list without a limit
SliceAll(list) == list

\* list.slice(0, 20)
SliceRecent(list) == SubSeq(list, 1, IF Len(list) < RECENT_LIMIT THEN Len(list) ELSE RECENT_LIMIT)

\* getRecentCommands(type)
getRecentCommands(type) == SliceRecent(SortRecent(RecentFilter(commands, type), <<>>))

\* searchCommands(text): what it returns
searchCommands(text) ==
    LET type == getSeachType(text)
        searchIndex == IF type # "null" THEN searchIndexes[type] ELSE globalSearchIndex
        rest == IF type # "null" THEN Tail(text) ELSE text
        results == IndexSearch(searchIndex, rest)
    IN  IF rest = <<>> THEN getRecentCommands(type)
        ELSE [i \in DOMAIN results |-> commandsMap[results[i]]]

\* commands.find(c => c.id === id): its position, 0 for undefined
RECURSIVE FindCommand(_, _)
FindCommand(id, i) ==
    IF i > Len(commands) THEN 0
    ELSE IF commands[i].id = id THEN i ELSE FindCommand(id, i + 1)

\* the module's own commands, lines 168-199: the help commands of every type word
\* but '?', then the hidden 'find' and 'command'
InitialCommands ==
    << Command(">", "help", << <<">">> >>, FALSE, NoLastUsed, FALSE),
       Command("<", "help", << <<"<">> >>, FALSE, NoLastUsed, FALSE),
       Command("&", "help", << <<"&">> >>, FALSE, NoLastUsed, FALSE),
       Command("~", "help", << <<"~">> >>, FALSE, NoLastUsed, FALSE),
       Command("$", "help", << <<"$">> >>, FALSE, NoLastUsed, FALSE),
       Command("find", "action", << <<"f", "i", "n", "d">> >>, TRUE, NoLastUsed, FALSE),
       Command("command", "action", << <<"c", "o">> >>, TRUE, NoLastUsed, FALSE) >>

RECURSIVE IndexAll(_, _, _)
IndexAll(list, index, types) ==
    IF list = <<>> THEN index
    ELSE IndexAll(Tail(list),
                  IF list[1].type \in types THEN IndexCommand(index, list[1]) ELSE index,
                  types)

NoCommandResult ==
    [op |-> "none", text |-> <<>>, id |-> "", ret |-> <<>>, found |-> FALSE]

\* the commands that plugins and the host register, of every shape
Fo == <<"f", "o">>
Templates ==
    { Command("a", "action", << <<"a", "b">> >>, FALSE, 1, TRUE),
      Command("b", "project", << <<"b", "o">> >>, FALSE, 2, FALSE),
      Command("c", "action", << <<"a", "o">> >>, FALSE, NoLastUsed, TRUE),
      Command("p", "package", << Fo, <<"b", "a">> >>, FALSE, NoLastUsed, FALSE),
      Command("q", "config", << Fo >>, FALSE, NoLastUsed, FALSE),
      Command("h", "package", << Fo >>, TRUE, NoLastUsed, TRUE),
      Command("x", "help", << Fo >>, FALSE, 3, FALSE) }

\* a long run of commands: one hidden, one of type help, every fourth used before
BulkIds ==
    << "n01", "n02", "n03", "n04", "n05", "n06", "n07", "n08", "n09", "n10",
       "n11", "n12", "n13", "n14", "n15", "n16", "n17", "n18", "n19", "n20",
       "n21", "n22", "n23", "n24", "n25", "n26" >>

Bulk(k) ==
    Command(BulkIds[k],
            IF k = 8 THEN "help" ELSE IF k % 2 = 0 THEN "package" ELSE "action",
            << Fo >>, k = 5,
            IF k % 4 = 0 THEN k ELSE NoLastUsed,
            k % 3 = 0)

BulkAdded == Cardinality({i \in DOMAIN commands : commands[i].id \in Range(BulkIds)})
TemplatesAdded ==
    Cardinality({i \in DOMAIN commands : commands[i].id \in {t.id : t \in Templates}})

\* the ids the user runs, 'nope' being no command
RunIds == {"a", "c", "h", "find", "n01", "nope"}

\* the texts the user searches for
Queries ==
    { <<>>, <<">">>, <<"?">>, <<"&">>, <<"&", "f">>, <<"f", "o">>, <<"#", "f">>,
      <<"~", "f", "o">> }

RunsMade == Cardinality({i \in DOMAIN cmdLog : cmdLog[i].type \in {"warn", "commandRan"}})

\* addCommand(cmd); the ids of commands are unique
AddCommand(cmd) ==
    /\ \A i \in DOMAIN commands : commands[i].id # cmd.id
    /\ commands' = Append(commands, cmd)
    /\ commandsMap' = MapSet(commandsMap, cmd.id, cmd)
    /\ searchIndexes' = [searchIndexes EXCEPT ![cmd.type] = IndexCommand(@, cmd)]
    /\ globalSearchIndex' = IndexCommand(globalSearchIndex, cmd)
    /\ cmdLast' = NoCommandResult
    /\ UNCHANGED <<cmdLog, pluginVars>>

\* searchCommands(text)
SearchCommands(text) ==
    /\ cmdLast' = [op |-> "search", text |-> text, id |-> "", ret |-> searchCommands(text),
                   found |-> FALSE]
    /\ UNCHANGED <<commands, commandsMap, searchIndexes, globalSearchIndex, cmdLog, pluginVars>>

\* runCommand(id, ctx)
RunCommand(id) ==
    LET i == FindCommand(id, 1)
    IN  /\ RunsMade < MaxRuns
        /\ IF i = 0
           THEN /\ cmdLog' = Append(cmdLog, [type |-> "warn", id |-> id])
                /\ cmdLast' = [op |-> "run", text |-> <<>>, id |-> id, ret |-> <<>>,
                               found |-> FALSE]
           ELSE /\ cmdLog' = cmdLog
                             \o (IF commands[i].handler
                                 THEN <<[type |-> "handler", id |-> commands[i].id]>>
                                 ELSE <<>>)
                             \o <<[type |-> "commandRan", id |-> commands[i].id]>>
                /\ cmdLast' = [op |-> "run", text |-> <<>>, id |-> id,
                               ret |-> <<commands[i]>>, found |-> TRUE]
        /\ UNCHANGED <<commands, commandsMap, searchIndexes, globalSearchIndex, pluginVars>>

----------------------------------------------------------------------------
(* Initial state *)

Init ==
    /\ manifest \in [Files -> Manifests]
    /\ projectOf \in [Files -> Projects \cup {NoProject}]
    /\ pkgStore = EmptyMap
    /\ pluginsStore = EmptyMap
    /\ pluginApiInstances = EmptyMap
    /\ apis = <<>>
    /\ reg = [views |-> {}, ipc |-> {}, addons |-> {}, widgets |-> {}]
    /\ resets = <<>>
    /\ tornDown = {}
    /\ listHist = [f \in Files |-> NoListHist]
    /\ last = NoEvent
    /\ currentPluginId = "undefined"
    /\ installationStep = "undefined"
    /\ ops = [k \in ProgressIds |-> IdleOp]
    /\ opCount = 0
    /\ calls = <<>>
    /\ published = <<>>
    /\ commands = InitialCommands
    /\ commandsMap = [id \in Range(Ids(InitialCommands)) |->
                         InitialCommands[FindIndex(InitialCommands, {id}, 1)]]
    /\ searchIndexes = [t \in CommandTypes |-> IndexAll(InitialCommands, <<>>, {t})]
    /\ globalSearchIndex = IndexAll(InitialCommands, <<>>, CommandTypes)
    /\ cmdLog = <<>>
    /\ cmdLast = NoCommandResult

----------------------------------------------------------------------------
(* The environment: package.json is edited, the project registry changes *)

WriteManifest(f, m) ==
    /\ m # manifest[f]
    /\ manifest' = [manifest EXCEPT ![f] = m]
    /\ last' = NoEvent
    /\ UNCHANGED <<projectOf, pkgStore, pluginsStore, pluginApiInstances, apis, reg,
                   resets, tornDown, listHist, lifeVars, actVars>>

SetProject(f, p) ==
    /\ p # projectOf[f]
    /\ projectOf' = [projectOf EXCEPT ![f] = p]
    /\ last' = NoEvent
    /\ UNCHANGED <<manifest, pkgStore, pluginsStore, pluginApiInstances, apis, reg,
                   resets, tornDown, listHist, lifeVars, actVars>>

----------------------------------------------------------------------------
(* list(file, context, { resetApi, lightApi, autoLoadApi }) *)

List(f, resetApi, lightApi, autoLoadApi) ==
    LET pkg == manifest[f]
        plugins == Discover(pkg, f)
        oldPlugins == getPlugins(f)
        info(ret, cached, wrote, started) ==
            [op |-> "list", file |-> f, pkg |-> pkg, ret |-> ret, cached |-> cached,
             wrote |-> wrote, startedReset |-> started, prev |-> listHist[f],
             first |-> ~MapHas(pkgStore, f)]
    IN  /\ pkgStore' = MapSet(pkgStore, f, pkg)
        /\ UNCHANGED <<manifest, projectOf, lifeVars, actVars>>
        /\ IF plugins = oldPlugins
           THEN \* if (oldPlugins && deepEqual(plugins, oldPlugins)) return oldPlugins
                /\ last' = [op |-> "list", reset |-> NoCont,
                            list |-> info(CachedListReturn(oldPlugins),
                                          TRUE, FALSE, FALSE)]
                /\ ListReturns(info(CachedListReturn(oldPlugins), TRUE, FALSE, FALSE))
                /\ UNCHANGED <<pluginsStore, pluginApiInstances, apis, reg, resets, tornDown>>
           ELSE /\ pluginsStore' = MapSet(pluginsStore, f, plugins)
                /\ IF resetApi \/ (autoLoadApi /\ ~MapHas(pluginApiInstances, f))
                   THEN \* await resetPluginApi({ file, lightApi }, context)
                        /\ StartReset(f, lightApi, info(VisiblePlugins(plugins),
                                                        FALSE, TRUE, TRUE))
                        /\ last' = NoEvent
                        /\ UNCHANGED listHist
                   ELSE /\ last' = [op |-> "list", reset |-> NoCont,
                                    list |-> info(VisiblePlugins(plugins),
                                                  FALSE, TRUE, FALSE)]
                        /\ ListReturns(info(VisiblePlugins(plugins), FALSE, TRUE, FALSE))
                        /\ UNCHANGED <<pluginApiInstances, apis, reg, resets, tornDown>>

----------------------------------------------------------------------------
(* resetPluginApi({ file, lightApi }, context), called directly *)

ResetPluginApi(f, lightApi) ==
    /\ StartReset(f, lightApi, NoCont)
    /\ last' = NoEvent
    /\ UNCHANGED <<manifest, projectOf, pkgStore, pluginsStore, listHist, lifeVars, actVars>>

\* the setTimeout callback, lines 179-257, up to its first await
ResetTimer(r) ==
    LET rec == resets[r]
        file == rec.file
        project == projectOf[file]
        plugins == getPlugins(file)
        n == Len(apis) + 1
        st0 == [api |-> NewPluginApi(plugins, file, project, rec.lightApi), ipc |-> reg.ipc]
        st1 == runPluginApi(BUILTIN_PLUGIN, BUILTIN_PLUGIN, st0, n)
        st2 == RunPlugins(plugins, st1, n)
        st3 == RunLocal(pkgStore[file].ui, st2, n)
        built == [rec EXCEPT !.api = n, !.project = project, !.pc = "views", !.i = 1]
    IN  /\ rec.pc = "timer"
        /\ UNCHANGED <<manifest, projectOf, pkgStore, pluginsStore, tornDown, actVars>>
        /\ IF project = NoProject \/ project.type # "vue"
           THEN \* resolve(false)
                /\ SettleReset(r, [rec EXCEPT !.pc = "resolved", !.result = FALSE])
                /\ UNCHANGED <<pluginApiInstances, apis, reg>>
           ELSE /\ pluginApiInstances' = MapSet(pluginApiInstances, file, n)
                /\ IF ~MapHas(pkgStore, file)
                   THEN \* const { pkg, pkgContext } = pkgStore.get(file) throws
                        /\ apis' = Append(apis, st2.api)
                        /\ reg' = [reg EXCEPT !.ipc = st2.ipc]
                        /\ SettleReset(r, [built EXCEPT !.pc = "thrown"])
                   ELSE /\ apis' = Append(apis, st3.api)
                        /\ reg' = [reg EXCEPT !.ipc = st3.ipc,
                                              !.addons = reg.addons
                                                         \cup Range(st3.api.clientAddons)]
                        /\ SettleReset(r, ResumeReset(built, pluginApiInstances', apis'))

\* await views.add({ view, project }, context) completes
ResetViewAdded(r) ==
    LET rec == resets[r]
        next == [rec EXCEPT !.i = rec.i + 1, !.viewsApplied = rec.viewsApplied + 1]
    IN  /\ rec.pc = "views"
        /\ reg' = [reg EXCEPT !.views = reg.views \cup {apis[rec.api].views[rec.i]}]
        /\ SettleReset(r, ResumeReset(next, pluginApiInstances, apis))
        /\ UNCHANGED <<manifest, projectOf, pkgStore, pluginsStore, pluginApiInstances,
                       apis, tornDown, actVars>>

\* await widgets.registerDefinition({ definition, project }, context) completes
ResetWidgetRegistered(r) ==
    LET rec == resets[r]
        next == [rec EXCEPT !.i = rec.i + 1, !.widgetsApplied = rec.widgetsApplied + 1]
    IN  /\ rec.pc = "widgets"
        /\ reg' = [reg EXCEPT !.widgets = reg.widgets \cup {apis[rec.api].widgetDefs[rec.i]}]
        /\ SettleReset(r, ResumeReset(next, pluginApiInstances, apis))
        /\ UNCHANGED <<manifest, projectOf, pkgStore, pluginsStore, pluginApiInstances,
                       apis, tornDown, actVars>>

----------------------------------------------------------------------------
(* callHook({ id, args, file }, context), called by the host *)

CallHook(f, id) ==
    /\ last' = [op |-> "callHook", reset |-> NoCont, list |-> NoCont, file |-> f,
                id |-> id, hook |-> callHook(id, f, pluginApiInstances, apis)]
    /\ UNCHANGED <<manifest, projectOf, pkgStore, pluginsStore, pluginApiInstances, apis,
                   reg, resets, tornDown, listHist, lifeVars, actVars>>

----------------------------------------------------------------------------
(* Lifecycle operations: install, installLocal, uninstall, runInvoke,      *)
(* finishInstall, update                                                    *)

\* cwd.get(): the workspace the operations act on
Cwd == "w1"

\* the plugins the user installs, removes, invokes and updates
LifecycleIds == {"vue-cli-plugin-a", "@vue/cli-plugin-babel"}

\* resolveModule(`${id}/generator`, cwd.get())
HasGenerator(id) == id = "vue-cli-plugin-a"

\* dependencies.getVersion(plugin, context).localPath
HasLocalPath(id) == id = "vue-cli-plugin-a"

\* progress.wrap(id, context, operation): operations wrapped under one progress id
\* run one at a time; a call made while another is in flight waits its turn
ProgressFree(k) == ops[k].pc = "idle"

\* ext: the external calls the operation has made (package manager, file copy)
\* of updateAll: plugins, what list returned; versions, what getVersion answered for
\* each so far; updated, its updatedPlugins; started, the resets it has begun
RunningOp(kind, id, pc) ==
    [kind |-> kind, id |-> id, pc |-> pc, local |-> FALSE, ext |-> <<>>,
     plugins |-> <<>>, versions |-> <<>>, updated |-> <<>>, started |-> <<>>]

LifecycleEvent(kind, id, outcome, notified) ==
    [op |-> "lifecycle", reset |-> NoCont, list |-> NoCont,
     done |-> OpDone(kind, id, outcome, notified)]

\* pkg.devDependencies[id] = range
SetDep(deps, id, range) ==
    IF \E i \in DOMAIN deps : deps[i].id = id
    THEN [i \in DOMAIN deps |-> IF deps[i].id = id THEN Dep(id, range) ELSE deps[i]]
    ELSE Append(deps, Dep(id, range))

\* delete pkg.devDependencies[id]
RECURSIVE DeleteDep(_, _)
DeleteDep(deps, id) ==
    IF deps = <<>> THEN <<>>
    ELSE IF deps[1].id = id THEN DeleteDep(Tail(deps), id)
    ELSE <<deps[1]>> \o DeleteDep(Tail(deps), id)

\* mockInstall(id, context): the package.json written back
mockInstall(pkg, id) == [pkg EXCEPT !.devDependencies = SetDep(pkg.devDependencies, id, "*")]

\* mockUninstall(id, context)
mockUninstall(pkg, id) == [pkg EXCEPT !.devDependencies = DeleteDep(pkg.devDependencies, id)]

\* install(id, context), up to its first await. mock: VUE_CLI_DEBUG is set and the
\* plugin is official
Install(id, mock) ==
    /\ ProgressFree(PROGRESS_ID)
    /\ opCount < MaxOps
    /\ opCount' = opCount + 1
    /\ mock => isOfficialPlugin(id)
    /\ currentPluginId' = id
    /\ installationStep' = "install"
    /\ IF mock
       THEN /\ manifest' = [manifest EXCEPT ![Cwd] = mockInstall(manifest[Cwd], id)]
            /\ ops' = [ops EXCEPT ![PROGRESS_ID] = RunningOp("install", id, "initPrompts")]
       ELSE /\ ops' = [ops EXCEPT ![PROGRESS_ID] = RunningOp("install", id, "installPackage")]
            /\ UNCHANGED manifest
    /\ last' = NoEvent
    /\ UNCHANGED <<projectOf, pkgStore, pluginsStore, pluginApiInstances, apis, reg,
                   resets, tornDown, listHist, actVars>>

\* an install that undoes its state when the package manager fails
InstallPackageSettledRollback(ok) ==
    LET op == ops[PROGRESS_ID]
    IN  /\ op.pc = "installPackage"
        /\ IF ok
           THEN /\ ops' = [ops EXCEPT ![PROGRESS_ID] = [op EXCEPT !.pc = "initPrompts"]]
                /\ last' = NoEvent
                /\ UNCHANGED <<currentPluginId, installationStep>>
           ELSE /\ ops' = [ops EXCEPT ![PROGRESS_ID] = IdleOp]
                /\ last' = LifecycleEvent(op.kind, op.id, "rejected", FALSE)
                /\ currentPluginId' = "null"
                /\ installationStep' = "null"
        /\ UNCHANGED <<manifest, projectOf, pkgStore, pluginsStore, pluginApiInstances, apis,
                       reg, resets, tornDown, listHist, opCount, actVars>>

\* await installPackage(...) settles: the package manager succeeded or failed
InstallPackageSettled(ok) ==
    LET op == ops[PROGRESS_ID]
    IN  /\ op.pc = "installPackage"
        /\ IF ok
           THEN /\ ops' = [ops EXCEPT ![PROGRESS_ID] = [op EXCEPT !.pc = "initPrompts"]]
                /\ last' = NoEvent
           ELSE /\ ops' = [ops EXCEPT ![PROGRESS_ID] = IdleOp]
                /\ last' = LifecycleEvent(op.kind, op.id, "rejected", FALSE)
        /\ UNCHANGED <<manifest, projectOf, pkgStore, pluginsStore, pluginApiInstances, apis,
                       reg, resets, tornDown, listHist, currentPluginId, installationStep,
                       opCount, actVars>>

\* await initPrompts(id, context) returns: installationStep = 'config', notify, return
InitPromptsDone ==
    LET op == ops[PROGRESS_ID]
    IN  /\ op.pc = "initPrompts"
        /\ installationStep' = "config"
        /\ ops' = [ops EXCEPT ![PROGRESS_ID] = IdleOp]
        /\ last' = LifecycleEvent(op.kind, op.id, "returned", TRUE)
        /\ UNCHANGED <<manifest, projectOf, pkgStore, pluginsStore, pluginApiInstances, apis,
                       reg, resets, tornDown, listHist, currentPluginId, opCount, actVars>>

\* installLocal(context), up to its first await (fs.readJson)
InstallLocal(id) ==
    /\ ProgressFree(PROGRESS_ID)
    /\ opCount < MaxOps
    /\ opCount' = opCount + 1
    /\ currentPluginId' = id
    /\ installationStep' = "install"
    /\ ops' = [ops EXCEPT ![PROGRESS_ID] = RunningOp("installLocal", id, "writePkg")]
    /\ last' = NoEvent
    /\ UNCHANGED <<manifest, projectOf, pkgStore, pluginsStore, pluginApiInstances, apis,
                   reg, resets, tornDown, listHist, actVars>>

\* await fs.writeJson(pkgFile, pkg) settles: devDependencies[id] = `file:${folder}`
InstallLocalWritten(ok) ==
    LET op == ops[PROGRESS_ID]
    IN  /\ op.pc = "writePkg"
        /\ IF ok
           THEN /\ manifest' = [manifest EXCEPT ![Cwd].devDependencies =
                                   SetDep(manifest[Cwd].devDependencies, op.id, "file:folder")]
                /\ ops' = [ops EXCEPT ![PROGRESS_ID] = [op EXCEPT !.pc = "copy"]]
                /\ last' = NoEvent
           ELSE /\ ops' = [ops EXCEPT ![PROGRESS_ID] = IdleOp]
                /\ last' = LifecycleEvent(op.kind, op.id, "rejected", FALSE)
                /\ UNCHANGED manifest
        /\ UNCHANGED <<projectOf, pkgStore, pluginsStore, pluginApiInstances, apis, reg,
                       resets, tornDown, listHist, currentPluginId, installationStep,
                       opCount, actVars>>

\* await fs.copy(from, to) settles
InstallLocalCopied(ok) ==
    LET op == ops[PROGRESS_ID]
    IN  /\ op.pc = "copy"
        /\ IF ok
           THEN /\ ops' = [ops EXCEPT ![PROGRESS_ID] = [op EXCEPT !.pc = "initPrompts"]]
                /\ last' = NoEvent
           ELSE /\ ops' = [ops EXCEPT ![PROGRESS_ID] = IdleOp]
                /\ last' = LifecycleEvent(op.kind, op.id, "rejected", FALSE)
        /\ UNCHANGED <<manifest, projectOf, pkgStore, pluginsStore, pluginApiInstances, apis,
                       reg, resets, tornDown, listHist, currentPluginId, installationStep,
                       opCount, actVars>>

\* uninstall(id, context): with the mock the whole operation runs without an await
Uninstall(id, mock) ==
    /\ ProgressFree(PROGRESS_ID)
    /\ opCount < MaxOps
    /\ opCount' = opCount + 1
    /\ mock => isOfficialPlugin(id)
    /\ IF mock
       THEN /\ manifest' = [manifest EXCEPT ![Cwd] = mockUninstall(manifest[Cwd], id)]
            /\ currentPluginId' = "null"
            /\ installationStep' = "null"
            /\ last' = LifecycleEvent("uninstall", id, "returned", TRUE)
            /\ UNCHANGED ops
       ELSE /\ installationStep' = "uninstall"
            /\ currentPluginId' = id
            /\ ops' = [ops EXCEPT ![PROGRESS_ID] = RunningOp("uninstall", id, "uninstallPackage")]
            /\ last' = NoEvent
            /\ UNCHANGED manifest
    /\ UNCHANGED <<projectOf, pkgStore, pluginsStore, pluginApiInstances, apis, reg,
                   resets, tornDown, listHist, actVars>>

\* await uninstallPackage(...) settles
UninstallPackageSettled(ok) ==
    LET op == ops[PROGRESS_ID]
    IN  /\ op.pc = "uninstallPackage"
        /\ ops' = [ops EXCEPT ![PROGRESS_ID] = IdleOp]
        /\ IF ok
           THEN /\ currentPluginId' = "null"
                /\ installationStep' = "null"
                /\ last' = LifecycleEvent(op.kind, op.id, "returned", TRUE)
           ELSE /\ last' = LifecycleEvent(op.kind, op.id, "rejected", FALSE)
                /\ UNCHANGED <<currentPluginId, installationStep>>
        /\ UNCHANGED <<manifest, projectOf, pkgStore, pluginsStore, pluginApiInstances, apis,
                       reg, resets, tornDown, listHist, opCount, actVars>>

\* lines 510-521 of runInvoke: the plugin's module is run again on the instance of
\* the workspace (pluginApi.cwd throws when there is none), installationStep = 'diff'
FinishInvoke(id) ==
    LET n == getApi(pluginApiInstances, Cwd)
        st == runPluginApi(id, id, [api |-> apis[n], ipc |-> reg.ipc], n)
    IN  /\ ops' = [ops EXCEPT ![PROGRESS_ID] = IdleOp]
        /\ IF n = 0
           THEN /\ last' = LifecycleEvent("runInvoke", id, "rejected", FALSE)
                /\ UNCHANGED <<apis, reg, installationStep>>
           ELSE /\ apis' = [apis EXCEPT ![n] = st.api]
                /\ reg' = [reg EXCEPT !.ipc = st.ipc]
                /\ installationStep' = "diff"
                /\ last' = LifecycleEvent("runInvoke", id, "returned", TRUE)

\* runInvoke(id, context), up to await child, or to its end without a generator
RunInvoke(id) ==
    /\ ProgressFree(PROGRESS_ID)
    /\ opCount < MaxOps
    /\ opCount' = opCount + 1
    /\ currentPluginId' = id
    /\ IF HasGenerator(id)
       THEN /\ ops' = [ops EXCEPT ![PROGRESS_ID] = RunningOp("runInvoke", id, "invoke")]
            /\ last' = NoEvent
            /\ UNCHANGED <<apis, reg, installationStep>>
       ELSE FinishInvoke(id)
    /\ UNCHANGED <<manifest, projectOf, pkgStore, pluginsStore, pluginApiInstances,
                   resets, tornDown, listHist, actVars>>

\* await child settles: vue invoke exited with or without an error
RunInvokeChildSettled(ok) ==
    LET op == ops[PROGRESS_ID]
    IN  /\ op.pc = "invoke"
        /\ IF ok
           THEN FinishInvoke(op.id)
           ELSE /\ ops' = [ops EXCEPT ![PROGRESS_ID] = IdleOp]
                /\ last' = LifecycleEvent(op.kind, op.id, "rejected", FALSE)
                /\ UNCHANGED <<apis, reg, installationStep>>
        /\ UNCHANGED <<manifest, projectOf, pkgStore, pluginsStore, pluginApiInstances,
                       resets, tornDown, listHist, currentPluginId, opCount, actVars>>

\* finishInstall(context): not wrapped in a progress
FinishInstall ==
    /\ installationStep' = "null"
    /\ currentPluginId' = "null"
    /\ last' = [op |-> "finishInstall", reset |-> NoCont, list |-> NoCont]
    /\ UNCHANGED <<manifest, projectOf, pkgStore, pluginsStore, pluginApiInstances, apis,
                   reg, resets, tornDown, listHist, ops, opCount, actVars>>

\* update({ id, full }, context), up to await dependencies.getVersion
Update(id) ==
    /\ ProgressFree(UPDATE_ID)
    /\ opCount < MaxOps
    /\ opCount' = opCount + 1
    /\ currentPluginId' = id
    /\ ops' = [ops EXCEPT ![UPDATE_ID] = RunningOp("update", id, "getVersion")]
    /\ last' = NoEvent
    /\ UNCHANGED <<manifest, projectOf, pkgStore, pluginsStore, pluginApiInstances, apis,
                   reg, resets, tornDown, listHist, installationStep, actVars>>

\* an update that always goes to the package manager
UpdateStepRegistry(localPath) == "updatePackage"

\* lines 555-559: if (localPath) updateLocalPackage(...) else updatePackage(...)
UpdateStep(localPath) == IF localPath THEN "updateLocalPackage" ELSE "updatePackage"

\* await dependencies.getVersion(plugin, context) settles; then updateLocalPackage
\* or updatePackage is called, by localPath
UpdateGotVersion(ok) ==
    LET op == ops[UPDATE_ID]
    IN  /\ op.pc = "getVersion"
        /\ IF ok
           THEN /\ ops' = [ops EXCEPT ![UPDATE_ID] =
                              [op EXCEPT !.pc = "updating", !.local = HasLocalPath(op.id),
                                         !.ext = <<[call |-> UpdateStep(HasLocalPath(op.id)),
                                                    status |-> "pending"]>>]]
                /\ last' = NoEvent
           ELSE /\ ops' = [ops EXCEPT ![UPDATE_ID] = IdleOp]
                /\ last' = LifecycleEvent(op.kind, op.id, "rejected", FALSE)
        /\ UNCHANGED <<manifest, projectOf, pkgStore, pluginsStore, pluginApiInstances, apis,
                       reg, resets, tornDown, listHist, currentPluginId, installationStep,
                       opCount, actVars>>

\* await updateLocalPackage / updatePackage settles; on success notify and
\* await resetPluginApi({ file: cwd.get() }, context)
UpdateSettled(ok) ==
    LET op == ops[UPDATE_ID]
    IN  /\ op.pc = "updating"
        /\ IF ok
           THEN /\ StartReset(Cwd, FALSE, [op |-> "update", id |-> op.id])
                /\ ops' = [ops EXCEPT ![UPDATE_ID] =
                              [op EXCEPT !.pc = "awaitReset", !.ext[1].status = "ok"]]
                /\ last' = NoEvent
           ELSE /\ ops' = [ops EXCEPT ![UPDATE_ID] = IdleOp]
                /\ last' = LifecycleEvent(op.kind, op.id, "rejected", FALSE)
                /\ UNCHANGED <<pluginApiInstances, apis, reg, resets, tornDown>>
        /\ UNCHANGED <<manifest, projectOf, pkgStore, pluginsStore, listHist,
                       currentPluginId, installationStep, opCount, actVars>>

\* updateAll(context), lines 595-597: under the progress id it awaits
\* list(cwd.get(), context, { resetApi: false }); lightApi is false and autoLoadApi
\* true by default, so list starts a reset for a workspace that has no instance
UpdateAll ==
    LET pkg == manifest[Cwd]
        plugins == Discover(pkg, Cwd)
        oldPlugins == getPlugins(Cwd)
        op == RunningOp("updateAll", "", "list")
        info(ret, cached, wrote, started) ==
            [op |-> "updateAllList", file |-> Cwd, pkg |-> pkg, ret |-> ret,
             cached |-> cached, wrote |-> wrote, startedReset |-> started,
             prev |-> listHist[Cwd]]
        listed(ret) == UpdateAllAfterList(op, ret)
        goesOn(ret) ==
            /\ ops' = [ops EXCEPT ![UPDATE_ALL_ID] =
                          IF listed(ret).pc = "done" THEN IdleOp ELSE listed(ret)]
            /\ last' = UpdateAllEvent(listed(ret), "returned", listed(ret).pc = "done")
    IN  /\ ProgressFree(UPDATE_ALL_ID)
        /\ opCount < MaxOps
        /\ opCount' = opCount + 1
        /\ pkgStore' = MapSet(pkgStore, Cwd, pkg)
        /\ UNCHANGED <<manifest, projectOf, currentPluginId, installationStep, actVars>>
        /\ IF plugins = oldPlugins
           THEN /\ ListReturns(info(CachedListReturn(oldPlugins), TRUE, FALSE, FALSE))
                /\ goesOn(CachedListReturn(oldPlugins))
                /\ UNCHANGED <<pluginsStore, pluginApiInstances, apis, reg, resets, tornDown>>
           ELSE /\ pluginsStore' = MapSet(pluginsStore, Cwd, plugins)
                /\ IF ~MapHas(pluginApiInstances, Cwd)
                   THEN /\ StartReset(Cwd, FALSE, info(VisiblePlugins(plugins),
                                                       FALSE, TRUE, TRUE))
                        /\ ops' = [ops EXCEPT ![UPDATE_ALL_ID] =
                                      [op EXCEPT !.started = <<"list">>]]
                        /\ last' = NoEvent
                        /\ UNCHANGED listHist
                   ELSE /\ ListReturns(info(VisiblePlugins(plugins), FALSE, TRUE, FALSE))
                        /\ goesOn(VisiblePlugins(plugins))
                        /\ UNCHANGED <<pluginApiInstances, apis, reg, resets, tornDown>>

\* lines 599-623: await dependencies.getVersion(plugin, context) settles for the
\* plugin the loop is at; after the last plugin the loop ends
UpdateAllGotVersion(ok, outdated) ==
    LET op == ops[UPDATE_ALL_ID]
        plugin == op.plugins[Len(op.versions) + 1]
        pushed == [op EXCEPT !.versions = Append(op.versions, outdated),
                             !.updated = PushOutdated(op.updated, plugin, outdated)]
        next == IF Len(pushed.versions) = Len(op.plugins) THEN UpdateAllAfterLoop(pushed)
                ELSE pushed
    IN  /\ op.kind = "updateAll"
        /\ op.pc = "getVersion"
        /\ IF ok
           THEN /\ ops' = [ops EXCEPT ![UPDATE_ALL_ID] =
                              IF next.pc = "done" THEN IdleOp ELSE next]
                /\ last' = UpdateAllEvent(next, "returned", next.pc = "done")
           ELSE /\ ops' = [ops EXCEPT ![UPDATE_ALL_ID] = IdleOp]
                /\ last' = UpdateAllEvent(op, "rejected", TRUE)
        /\ UNCHANGED <<manifest, projectOf, pkgStore, pluginsStore, pluginApiInstances, apis,
                       reg, resets, tornDown, listHist, currentPluginId, installationStep,
                       opCount, actVars>>

\* lines 621-631: await updatePackage(...) settles; on success notify and
\* await resetPluginApi({ file: cwd.get() }, context)
UpdateAllSettled(ok) ==
    LET op == ops[UPDATE_ALL_ID]
    IN  /\ op.kind = "updateAll"
        /\ op.pc = "updating"
        /\ IF ok
           THEN /\ StartReset(Cwd, FALSE, [op |-> "updateAllReset"])
                /\ ops' = [ops EXCEPT ![UPDATE_ALL_ID] =
                              [op EXCEPT !.pc = "awaitReset", !.ext[1].status = "ok",
                                         !.started = Append(op.started, "final")]]
                /\ last' = NoEvent
           ELSE /\ ops' = [ops EXCEPT ![UPDATE_ALL_ID] = IdleOp]
                /\ last' = UpdateAllEvent([op EXCEPT !.ext[1].status = "failed"],
                                          "rejected", TRUE)
                /\ UNCHANGED <<pluginApiInstances, apis, reg, resets, tornDown>>
        /\ UNCHANGED <<manifest, projectOf, pkgStore, pluginsStore, listHist,
                       currentPluginId, installationStep, opCount, actVars>>

----------------------------------------------------------------------------
(* callAction({ id, params, file = cwd.get() }, context) *)

ActionIds == {"act", "unknown"}
Params == {"x", "y"}

\* what a handler does when called: it returns a value, or throws (or rejects)
ActionOutcome(fn) ==
    IF fn = "ab" THEN [threw |-> TRUE, value |-> "error-ab"]
    ELSE [threw |-> FALSE, value |-> "5"]

\* pluginApi.actions.get(id): the handlers, none when the id was never registered
ActionHandlers(n, id) == IF MapHas(apis[n].actions, id) THEN apis[n].actions[id] ELSE <<>>

ActionEvent(type, c, rec) ==
    [type |-> type, call |-> c, id |-> rec.id, params |-> rec.params,
     results |-> rec.results, errors |-> rec.errors]

\* one handler that lets the exception out of the loop
PushOutcomeUncaught(rec, out) ==
    IF out.threw THEN [rec EXCEPT !.pc = "threw"]
    ELSE [rec EXCEPT !.results = Append(rec.results, out.value),
                     !.errors = Append(rec.errors, "null")]

\* lines 649-657: try { result = await cb(params) } catch (e) { error = e }, then
\* results.push(result); errors.push(error)
PushOutcome(rec, out) ==
    IF out.threw
    THEN [rec EXCEPT !.results = Append(rec.results, "null"),
                     !.errors = Append(rec.errors, out.value)]
    ELSE [rec EXCEPT !.results = Append(rec.results, out.value),
                     !.errors = Append(rec.errors, "null")]

\* the loop goes on to the handler at rec.i and awaits it, or ends
NextHandler(rec, list) ==
    IF rec.pc = "threw" THEN rec
    ELSE IF rec.i <= Len(list)
    THEN [rec EXCEPT !.pc = "await", !.invoked = Append(rec.invoked, list[rec.i])]
    ELSE [rec EXCEPT !.pc = "returned"]

\* the event published once the loop has ended
PublishResolved(c, rec) ==
    IF rec.pc = "returned" THEN Append(published, ActionEvent("resolved", c, rec))
    ELSE published

\* callAction, up to its first await
CallAction(id, params, file) ==
    LET c == Len(calls) + 1
        n == getApi(pluginApiInstances, file)
        rec0 == [id |-> id, params |-> params, file |-> file, api |-> n, pc |-> "start",
                 i |-> 1, results |-> <<>>, errors |-> <<>>, invoked |-> <<>>]
        called == Append(published, ActionEvent("called", c, rec0))
        rec == IF n = 0
               THEN \* pluginApi.actions of undefined
                    [rec0 EXCEPT !.pc = "threw"]
               ELSE NextHandler(rec0, ActionHandlers(n, id))
    IN  /\ Len(calls) < MaxCalls
        /\ calls' = Append(calls, rec)
        /\ published' = IF rec.pc = "returned"
                        THEN Append(called, ActionEvent("resolved", c, rec))
                        ELSE called
        /\ last' = NoEvent
        /\ UNCHANGED <<manifest, projectOf, pkgStore, pluginsStore, pluginApiInstances, apis,
                       reg, resets, tornDown, listHist, lifeVars, cmdVars>>

\* await cb(params) settles
ActionHandlerSettled(c) ==
    LET rec == calls[c]
        list == ActionHandlers(rec.api, rec.id)
        pushed == PushOutcome(rec, ActionOutcome(list[rec.i]))
        next == NextHandler([pushed EXCEPT !.i = rec.i + 1], list)
    IN  /\ rec.pc = "await"
        /\ calls' = [calls EXCEPT ![c] = next]
        /\ published' = PublishResolved(c, next)
        /\ last' = NoEvent
        /\ UNCHANGED <<manifest, projectOf, pkgStore, pluginsStore, pluginApiInstances, apis,
                       reg, resets, tornDown, listHist, lifeVars, cmdVars>>

----------------------------------------------------------------------------
(* The reset protocol under a changing project registry *)

ResetSteps ==
    \/ \E r \in DOMAIN resets : ResetTimer(r)
    \/ \E r \in DOMAIN resets : ResetViewAdded(r)
    \/ \E r \in DOMAIN resets : ResetWidgetRegistered(r)

Next ==
    \/ \E f \in Files, p \in Projects \cup {NoProject} : SetProject(f, p)
    \/ \E f \in Files, resetApi \in BOOLEAN, lightApi \in BOOLEAN, autoLoadApi \in BOOLEAN :
          List(f, resetApi, lightApi, autoLoadApi)
    \/ \E f \in Files, lightApi \in BOOLEAN : ResetPluginApi(f, lightApi)
    \/ ResetSteps

Spec == Init /\ [][Next]_vars

(* Discovery under a changing package.json *)

NextList ==
    \/ \E f \in Files, m \in Manifests : WriteManifest(f, m)
    \/ \E f \in Files, resetApi \in BOOLEAN, lightApi \in BOOLEAN, autoLoadApi \in BOOLEAN :
          List(f, resetApi, lightApi, autoLoadApi)
    \/ ResetSteps

SpecList == Init /\ [][NextList]_vars

(* Hook dispatch by the host *)

NextHook ==
    \/ \E f \in Files, resetApi \in BOOLEAN, lightApi \in BOOLEAN, autoLoadApi \in BOOLEAN :
          List(f, resetApi, lightApi, autoLoadApi)
    \/ ResetSteps
    \/ \E f \in Files, id \in HookIds : CallHook(f, id)

SpecHook == Init /\ [][NextHook]_vars

(* Action dispatch by the host *)

NextAction ==
    \/ \E f \in Files, resetApi \in BOOLEAN, lightApi \in BOOLEAN, autoLoadApi \in BOOLEAN :
          List(f, resetApi, lightApi, autoLoadApi)
    \/ ResetSteps
    \/ \E id \in ActionIds, params \in Params, f \in Files : CallAction(id, params, f)
    \/ \E c \in DOMAIN calls : ActionHandlerSettled(c)

SpecAction == Init /\ [][NextAction]_vars

(* The command registry: commands of every shape are added, searched and run *)

NextCommand ==
    \/ \E cmd \in Templates : TemplatesAdded < MaxAdds /\ AddCommand(cmd)
    \/ \E text \in Queries : SearchCommands(text)
    \/ \E id \in RunIds : RunCommand(id)

\* the plugins connector at rest
InitCommand ==
    /\ Init
    /\ manifest = [f \in Files |-> PkgEmpty]
    /\ projectOf = [f \in Files |-> NoProject]

SpecCommand == InitCommand /\ [][NextCommand]_vars

(* The command registry: a long run of commands is added *)

NextRecent ==
    \/ BulkAdded < MaxBulk /\ AddCommand(Bulk(BulkAdded + 1))
    \/ \E text \in Queries : SearchCommands(text)
    \/ \E id \in RunIds : RunCommand(id)

SpecRecent == InitCommand /\ [][NextRecent]_vars

(* The lifecycle operations, over discovery and the reset protocol *)

NextLifecycle ==
    \/ List(Cwd, TRUE, FALSE, TRUE)
    \/ ResetSteps
    \/ \E id \in LifecycleIds, mock \in BOOLEAN : Install(id, mock)
    \/ \E ok \in BOOLEAN : InstallPackageSettled(ok)
    \/ InitPromptsDone
    \/ \E id \in LifecycleIds : InstallLocal(id)
    \/ \E ok \in BOOLEAN : InstallLocalWritten(ok)
    \/ \E ok \in BOOLEAN : InstallLocalCopied(ok)
    \/ \E id \in LifecycleIds, mock \in BOOLEAN : Uninstall(id, mock)
    \/ \E ok \in BOOLEAN : UninstallPackageSettled(ok)
    \/ \E id \in LifecycleIds : RunInvoke(id)
    \/ \E ok \in BOOLEAN : RunInvokeChildSettled(ok)
    \/ FinishInstall
    \/ \E id \in LifecycleIds : Update(id)
    \/ \E ok \in BOOLEAN : UpdateGotVersion(ok)
    \/ \E ok \in BOOLEAN : UpdateSettled(ok)

\* a workspace with an open vue project
InitLifecycle ==
    /\ Init
    /\ manifest = [f \in Files |-> PkgPlain]
    /\ projectOf = [f \in Files |-> [id |-> "p1", type |-> "vue"]]

SpecLifecycle == InitLifecycle /\ [][NextLifecycle]_vars

(* updateAll, over discovery under a changing package.json *)

NextUpdateAll ==
    \/ \E m \in Manifests : WriteManifest(Cwd, m)
    \/ ResetSteps
    \/ UpdateAll
    \/ \E ok \in BOOLEAN, outdated \in BOOLEAN : UpdateAllGotVersion(ok, outdated)
    \/ \E ok \in BOOLEAN : UpdateAllSettled(ok)

\* the current workspace has an open vue project and any of the package.json files
InitUpdateAll ==
    /\ Init
    /\ \A f \in Files \ {Cwd} : manifest[f] = PkgEmpty
    /\ projectOf = [f \in Files |-> [id |-> "p1", type |-> "vue"]]

SpecUpdateAll == InitUpdateAll /\ [][NextUpdateAll]_vars

(* list with its default options, over any package.json and project *)

NextFirstList ==
    \/ \E f \in Files, m \in Manifests : WriteManifest(f, m)
    \/ \E f \in Files, p \in Projects \cup {NoProject} : SetProject(f, p)
    \/ \E f \in Files : List(f, TRUE, FALSE, TRUE)
    \/ ResetSteps

SpecFirstList == Init /\ [][NextFirstList]_vars

----------------------------------------------------------------------------
(* Properties of the reset protocol, discovery and hook dispatch *)

ResetResolved == last.op = "resetResolved"
ListReturned == last.list.op = "list"
IsPrefix(s, t) == Len(s) <= Len(t) /\ s = SubSeq(t, 1, Len(s))

\* C1: a reset whose project cannot be resolved, or is of an incompatible type,
\* resolves false and leaves no instance registered for the workspace, even if one
\* was registered before the call (so a later callHook finds none).
C1_FalseResetLeavesNoInstance ==
    (ResetResolved /\ ~last.reset.result)
        => /\ ~MapHas(pluginApiInstances, last.reset.file)
           /\ callHook("taskRun", last.reset.file, pluginApiInstances, apis).noop

\* C2: whatever the interleaving of resets on a workspace, an instance that is
\* replaced in the instance map has been torn down before its replacement is stored.
C2_ReplacedInstanceTornDown ==
    [][\A f \in Files :
          (MapHas(pluginApiInstances, f) /\ pluginApiInstances'[f] # pluginApiInstances[f])
              => pluginApiInstances[f] \in tornDown]_vars

\* C5: a list() called after an earlier list() of the same workspace has returned,
\* with the manifest unchanged, returns an element-wise equal list, writes nothing
\* to the plugin store and starts no reset.
C5_ListIdempotent ==
    (ListReturned /\ last.list.prev.called /\ last.list.prev.pkg = last.list.pkg)
        => /\ last.list.ret = last.list.prev.ret
           /\ ~last.list.wrote
           /\ ~last.list.startedReset

\* C6: no list returned by list() holds a hidden plugin, on the changed path and on
\* the cached path alike, while the hidden plugins stay in the plugin store.
C6_ListReturnsNoHidden ==
    ListReturned
        => /\ \A i \in DOMAIN last.list.ret : ~last.list.ret[i].hidden
           /\ \A q \in Range(Discover(last.list.pkg, last.list.file)) :
                 q.hidden => q \in Range(getPlugins(last.list.file))

\* C9: callHook does nothing when the workspace has no instance; otherwise it
\* invokes the hook's handlers in registration order, and the first handler that
\* throws ends the dispatch: no later handler runs and the caller gets the exception.
C9_CallHookDispatch ==
    last.op = "callHook" =>
        LET h == last.hook
            n == getApi(pluginApiInstances, last.file)
        IN  IF n = 0
            THEN h.noop /\ h.invoked = <<>> /\ ~h.threw
            ELSE /\ ~h.noop
                 /\ IsPrefix(h.invoked, apis[n].hooks[last.id])
                 /\ \A i \in 1..(Len(h.invoked) - 1) : ~HookThrows(h.invoked[i])
                 /\ h.threw <=> (h.invoked # <<>> /\ HookThrows(h.invoked[Len(h.invoked)]))
                 /\ ~h.threw => h.invoked = apis[n].hooks[last.id]

\* a dispatch on an existing instance that a throwing handler cut short
C9_Witness ==
    /\ last.op = "callHook"
    /\ last.hook.threw
    /\ Len(last.hook.invoked) >= 2
    /\ Len(last.hook.invoked) < Len(apis[pluginApiInstances[last.file]].hooks[last.id])

\* C10: a reset that resolves true in non-light mode has fired exactly one hook,
\* after every view and widget definition was applied: projectOpen if there was no
\* prior instance or its project differs from the resolved one, pluginReload
\* otherwise. A light reset fires no hook and loads no widgets.
C10_ResetFiresOneHook ==
    (ResetResolved /\ last.reset.result) =>
        LET r == last.reset
        IN  IF r.lightApi
            THEN r.fired = <<>> /\ ~r.widgetsLoaded
            ELSE /\ Len(r.fired) = 1
                 /\ r.fired[1].id =
                        IF r.prior = 0 \/ apis[r.prior].project.id # r.project.id
                        THEN "projectOpen" ELSE "pluginReload"
                 /\ r.fired[1].viewsApplied = r.fired[1].views
                 /\ r.fired[1].widgetsApplied = r.fired[1].widgetDefs
                 /\ r.viewsApplied = Len(apis[r.api].views)
                 /\ r.widgetsApplied = Len(apis[r.api].widgetDefs)

\* a non-light reset over a prior instance of the same project, with views and
\* widget definitions to apply, has resolved true
C10_Witness ==
    /\ ResetResolved
    /\ last.reset.result
    /\ ~last.reset.lightApi
    /\ last.reset.prior # 0
    /\ last.reset.fired[1].id = "pluginReload"
    /\ last.reset.fired[1].views >= 1
    /\ last.reset.fired[1].widgetDefs >= 1

----------------------------------------------------------------------------
(* Properties of the lifecycle operations *)

\* the progress ids under which an operation has started and not yet ended
InFlight == {k \in ProgressIds : ops[k].pc # "idle"}

\* C3: at no time are two lifecycle operations (install, installLocal, uninstall,
\* runInvoke, update, updateAll) in flight together: one started while another runs
\* is held back until that one has ended.
C3_OneOperationInFlight == Cardinality(InFlight) <= 1

\* undefined (never set) and null (cleared) are both the idle step
StepName(step) == IF step \in {"undefined", "null"} THEN "idle" ELSE step

StepEdges ==
    { <<"idle", "install">>, <<"install", "config">>, <<"config", "diff">>,
      <<"config", "idle">>, <<"diff", "idle">>, <<"idle", "uninstall">>,
      <<"uninstall", "idle">> }

\* C4: every change of installationStep follows an edge of idle -> install ->
\* config -> diff -> idle, config -> idle, idle -> uninstall -> idle.
C4_StepFollowsStateMachine ==
    [][StepName(installationStep') # StepName(installationStep)
          => <<StepName(installationStep), StepName(installationStep')>> \in StepEdges]_vars

----------------------------------------------------------------------------
(* Properties of action dispatch *)

\* C7: callAction invokes every handler registered for the action id, one at a
\* time in registration order; a handler that throws does not stop the later ones;
\* results and errors are as long as the handler list, and at each position hold
\* null and the error of a handler that failed, its value and null otherwise.
C7_CallActionResults ==
    \A c \in DOMAIN calls :
        LET rec == calls[c]
            list == IF rec.api = 0 THEN <<>> ELSE ActionHandlers(rec.api, rec.id)
        IN  /\ rec.pc = "threw" => rec.api = 0
            /\ IsPrefix(rec.invoked, list)
            /\ rec.pc = "await" => /\ Len(rec.invoked) = Len(rec.results) + 1
                                   /\ Len(rec.errors) = Len(rec.results)
            /\ rec.pc = "returned" =>
                  /\ rec.invoked = list
                  /\ Len(rec.results) = Len(list)
                  /\ Len(rec.errors) = Len(list)
                  /\ \A i \in DOMAIN list :
                        IF ActionOutcome(list[i]).threw
                        THEN /\ rec.results[i] = "null"
                             /\ rec.errors[i] = ActionOutcome(list[i]).value
                        ELSE /\ rec.results[i] = ActionOutcome(list[i]).value
                             /\ rec.errors[i] = "null"

\* handlers [h1 throws, h2 returns 5] gave results [null, 5], errors [error, null]
C7_Witness ==
    \E c \in DOMAIN calls :
        /\ calls[c].pc = "returned"
        /\ calls[c].results = <<"null", "5">>
        /\ calls[c].errors = <<"error-ab", "null">>

EventsOf(c, type) == {k \in DOMAIN published : published[k].call = c /\ published[k].type = type}

\* C8: every callAction, for any action id and any workspace, publishes exactly one
\* "called" event before any handler runs and exactly one "resolved" event with the
\* same id and params after the last handler; no call ends without its "resolved".
C8_CalledThenResolved ==
    \A c \in DOMAIN calls :
        /\ Cardinality(EventsOf(c, "called")) = 1
        /\ calls[c].pc = "await" => EventsOf(c, "resolved") = {}
        /\ calls[c].pc \in {"returned", "threw"} =>
              /\ Cardinality(EventsOf(c, "resolved")) = 1
              /\ \A k \in EventsOf(c, "called"), m \in EventsOf(c, "resolved") :
                    /\ k < m
                    /\ published[m].id = published[k].id
                    /\ published[m].params = published[k].params

----------------------------------------------------------------------------
(* Properties of module loading *)

\* the hook handlers the invoked modules of a load log registered, in load order
RECURSIVE HooksOfLoaded(_, _)
HooksOfLoaded(loaded, h) ==
    IF loaded = <<>> THEN <<>>
    ELSE (IF loaded[1].invoked THEN Contribution(loaded[1].id).hooks[h] ELSE <<>>)
         \o HooksOfLoaded(Tail(loaded), h)

\* the load log of PluginApi n is complete: the built-in module, the modules of the
\* stored plugins in order, the local ui modules; only the modules that are
\* functions were invoked, and every handler they registered is on the instance
LoadedInOrder(n) ==
    LET a == apis[n]
        full == <<BUILTIN_PLUGIN>> \o Ids(a.plugins)
                \o [i \in DOMAIN manifest[a.file].ui |-> LocalUi]
    IN  /\ Ids(a.loaded) = full
        /\ \A i \in DOMAIN a.loaded :
              /\ a.loaded[i].kind = ModuleKind(a.loaded[i].id)
              /\ a.loaded[i].invoked <=> a.loaded[i].kind \in {"ok", "throws"}
        /\ \A h \in HookIds : a.hooks[h] = HooksOfLoaded(a.loaded, h)

----------------------------------------------------------------------------
(* Properties of update *)

\* C12: update of a plugin with a local path resyncs the files (updateLocalPackage)
\* and never calls the package manager's update; update of a plugin without one
\* calls the package manager's update and never copies files; the reset of the
\* current workspace, a full one, is started only once that step has succeeded.
C12_UpdateByLocalPath ==
    LET op == ops[UPDATE_ID]
    IN  /\ op.pc \in {"updating", "awaitReset"} =>
              /\ Len(op.ext) = 1
              /\ op.local => op.ext[1].call = "updateLocalPackage"
              /\ ~op.local => op.ext[1].call = "updatePackage"
              /\ op.local = HasLocalPath(op.id)
        /\ op.pc \in {"idle", "getVersion"} => op.ext = <<>>
        /\ \A r \in DOMAIN resets :
              resets[r].cont.op = "update" =>
                  /\ op.pc = "awaitReset"
                  /\ op.ext[1].status = "ok"
                  /\ ~resets[r].lightApi
                  /\ resets[r].file = Cwd
        /\ op.pc = "updating" => op.ext[1].status = "pending"

\* both kinds of update have got as far as their reset: here the local one
C12_Witness ==
    /\ ops[UPDATE_ID].pc = "awaitReset"
    /\ ops[UPDATE_ID].local
    /\ ops[UPDATE_ID].ext[1].call = "updateLocalPackage"
    /\ \E r \in DOMAIN resets : resets[r].cont.op = "update" /\ resets[r].pc = "timer"

----------------------------------------------------------------------------
(* Properties of runInvoke *)

\* the step is one of runInvoke: its start, or the step it ends with
RunInvokeStarts == ops[PROGRESS_ID] = IdleOp /\ ops'[PROGRESS_ID].kind = "runInvoke"
RunInvokeEnds ==
    /\ last'.op = "lifecycle"
    /\ last'.done.kind = "runInvoke"
    /\ \/ ops[PROGRESS_ID].kind = "runInvoke"
       \/ ops[PROGRESS_ID] = IdleOp /\ opCount' = opCount + 1

\* what runInvoke leaves alone: the instance map, the resets, every other PluginApi
RunInvokeFrame ==
    /\ pluginApiInstances' = pluginApiInstances
    /\ resets' = resets
    /\ Len(apis') = Len(apis)
    /\ \A n \in DOMAIN apis : n # getApi(pluginApiInstances, Cwd) => apis'[n] = apis[n]

\* a successful runInvoke ran the module of plugin id once more on the instance
RunInvokeReran ==
    LET n == getApi(pluginApiInstances, Cwd)
        id == last'.done.id
    IN  /\ n # 0
        /\ apis'[n].loaded = Append(apis[n].loaded,
                                    [id |-> id, kind |-> ModuleKind(id),
                                     invoked |-> ModuleKind(id) \in {"ok", "throws"}])
        /\ apis'[n].plugins = apis[n].plugins
        /\ apis'[n].project = apis[n].project

\* C13: runInvoke(id) never replaces or removes the workspace's runtime instance and
\* starts no reset; it only runs the module of plugin id again on that instance,
\* and when it succeeds installationStep is diff and currentPluginId is id.
C13_RunInvokeKeepsInstance ==
    [][/\ (RunInvokeStarts \/ RunInvokeEnds) => RunInvokeFrame
       /\ (RunInvokeEnds /\ last'.done.outcome = "returned") =>
             /\ RunInvokeReran
             /\ installationStep' = "diff"
             /\ currentPluginId' = last'.done.id]_vars

\* the same without the claim on currentPluginId
C13_FrameOnly ==
    [][/\ (RunInvokeStarts \/ RunInvokeEnds) => RunInvokeFrame
       /\ (RunInvokeEnds /\ last'.done.outcome = "returned") =>
             /\ RunInvokeReran
             /\ installationStep' = "diff"]_vars

----------------------------------------------------------------------------
(* Properties of a failing package manager *)

\* install or uninstall has just called the package manager
PackageManagerCalled ==
    /\ ops[PROGRESS_ID] = IdleOp
    /\ ops'[PROGRESS_ID].pc \in {"installPackage", "uninstallPackage"}

\* the package manager call of install or uninstall has just failed
PackageManagerFailed ==
    /\ ops[PROGRESS_ID].pc \in {"installPackage", "uninstallPackage"}
    /\ ops'[PROGRESS_ID] = IdleOp
    /\ last'.op = "lifecycle"
    /\ last'.done.outcome = "rejected"

----------------------------------------------------------------------------
(* Properties of the command registry *)

Searched == cmdLast.op = "search"

\* the text left once a type prefix is taken off
Rest(text) == IF text # <<>> /\ text[1] \in DOMAIN typeWords THEN Tail(text) ELSE text

\* where a returned command stands in the order of addition
AddedAt(c) == CHOOSE i \in DOMAIN commands : commands[i].id = c.id

LabelMatches(c, q) ==
    /\ Trim(q) # <<>>
    /\ \E i \in DOMAIN Tokens(c.label) : StartsWith(Tokens(c.label)[i], Trim(q))

\* the commands the unprefixed recent list draws from
Eligible == {i \in DOMAIN commands : ~commands[i].hidden /\ commands[i].type # "help"}

\* C15: after any addCommand and runCommand calls, searchCommands("") returns at
\* most 20 commands, none of type help and none hidden.
C15_EmptySearchBounded ==
    (Searched /\ cmdLast.text = <<>>) =>
        /\ Len(cmdLast.ret) <= 20
        /\ \A i \in DOMAIN cmdLast.ret :
              /\ cmdLast.ret[i].type # "help"
              /\ ~cmdLast.ret[i].hidden

\* more than 20 commands could be listed, next to a hidden one and one of type
\* help, and 20 were
C15_Witness ==
    /\ Searched
    /\ cmdLast.text = <<>>
    /\ Cardinality(Eligible) > 20
    /\ Len(cmdLast.ret) = 20
    /\ \E i \in DOMAIN commands : commands[i].hidden /\ commands[i].id \in Range(BulkIds)
    /\ \E i \in DOMAIN commands : commands[i].type = "help" /\ commands[i].lastUsed # NoLastUsed

\* C16: in a recent list (the query is empty once the prefix is off) every command
\* with lastUsed stands before every command without, the commands with lastUsed
\* are in descending order of it, and the commands without keep the order they
\* were added in: a (T1), b (T2 > T1), c (none) are listed b, a, c.
C16_RecentOrder ==
    (Searched /\ Rest(cmdLast.text) = <<>>) =>
        \A i, j \in DOMAIN cmdLast.ret :
            i < j =>
                LET x == cmdLast.ret[i]
                    y == cmdLast.ret[j]
                IN  /\ y.lastUsed # NoLastUsed =>
                          /\ x.lastUsed # NoLastUsed
                          /\ x.lastUsed >= y.lastUsed
                    /\ (x.lastUsed = NoLastUsed /\ y.lastUsed = NoLastUsed) =>
                          AddedAt(x) < AddedAt(y)

\* c was added before b and a, and the list is b, a, c
C16_Witness ==
    /\ Searched
    /\ cmdLast.text = <<>>
    /\ Ids(cmdLast.ret) = <<"b", "a", "c">>
    /\ FindCommand("c", 1) < FindCommand("b", 1)
    /\ FindCommand("b", 1) < FindCommand("a", 1)

\* the commands in a returned list
Returned == {cmdLast.ret[i] : i \in DOMAIN cmdLast.ret}

\* C17: a query that starts with one of ? > < & ~ $ is answered from the commands of
\* that type alone, matched on the text behind the symbol; the symbol alone gives
\* the recent list of that type; a query with no prefix, or one that is no type
\* word, is answered from the global index.
C17_PrefixDispatch ==
    Searched =>
        LET text == cmdLast.text
            typed == text # <<>> /\ text[1] \in DOMAIN typeWords
            visible == {commands[i] : i \in {k \in DOMAIN commands : ~commands[k].hidden}}
        IN  /\ (typed /\ Tail(text) # <<>>) =>
                  Returned = {c \in visible : c.type = typeWords[text[1]]
                                              /\ LabelMatches(c, Tail(text))}
            /\ (typed /\ Tail(text) = <<>>) =>
                  Returned = {c \in visible : c.type = typeWords[text[1]]}
            /\ (~typed /\ text # <<>>) =>
                  Returned = {c \in visible : LabelMatches(c, text)}

\* "&f" gave the package p alone, with the config q and the hidden package h, whose
\* labels match as well, in the registry
C17_Witness ==
    /\ Searched
    /\ cmdLast.text = <<"&", "f">>
    /\ Ids(cmdLast.ret) = <<"p">>
    /\ FindCommand("q", 1) # 0
    /\ FindCommand("h", 1) # 0

\* the ids of the commands that were run
Ran == {cmdLog[i].id : i \in {k \in DOMAIN cmdLog : cmdLog[k].type = "commandRan"}}

\* C18: runCommand(id) sets the command's lastUsed, so that searchCommands("") lists a
\* command that was run ahead of every command that never was.
C18_RunSetsLastUsed ==
    /\ \A i \in DOMAIN commands :
          commands[i].id \in Ran => commands[i].lastUsed # NoLastUsed
    /\ (Searched /\ cmdLast.text = <<>>) =>
          \A i, j \in DOMAIN cmdLast.ret :
              (cmdLast.ret[j].id \in Ran /\ cmdLast.ret[i].id \notin Ran
               /\ cmdLast.ret[i].lastUsed = NoLastUsed) => j < i

\* C19: no search returns a hidden command, whatever the query; runCommand on a
\* hidden command finds it, calls its handler if it has one, publishes the
\* commandRan event and returns it; runCommand on an id that was never added
\* returns null, calls no handler and publishes nothing.
C19_HiddenRunnable ==
    /\ Searched => \A i \in DOMAIN cmdLast.ret : ~cmdLast.ret[i].hidden
    /\ cmdLast.op = "run" =>
          LET i == FindCommand(cmdLast.id, 1)
              n == Len(cmdLog)
          IN  IF i = 0
              THEN /\ cmdLast.ret = <<>>
                   /\ cmdLog[n] = [type |-> "warn", id |-> cmdLast.id]
              ELSE /\ cmdLast.ret = <<commands[i]>>
                   /\ cmdLog[n] = [type |-> "commandRan", id |-> cmdLast.id]
                   /\ commands[i].handler =>
                         /\ n >= 2
                         /\ cmdLog[n - 1] = [type |-> "handler", id |-> cmdLast.id]
                   /\ ~commands[i].handler =>
                         (n >= 2 => cmdLog[n - 1].type # "handler")

\* the hidden command h was run: its handler was called and the event published
C19_Witness ==
    /\ cmdLast.op = "run"
    /\ cmdLast.id = "h"
    /\ cmdLast.ret # <<>>
    /\ cmdLast.ret[1].hidden
    /\ Len(cmdLog) >= 2
    /\ cmdLog[Len(cmdLog)] = [type |-> "commandRan", id |-> "h"]
    /\ cmdLog[Len(cmdLog) - 1] = [type |-> "handler", id |-> "h"]

----------------------------------------------------------------------------
(* Properties of updateAll *)

\* the plugins of the list that getVersion has answered "outdated" for
RECURSIVE OutdatedOf(_, _)
OutdatedOf(plugins, versions) ==
    IF plugins = <<>> \/ versions = <<>> THEN <<>>
    ELSE (IF versions[1] THEN <<plugins[1]>> ELSE <<>>)
         \o OutdatedOf(Tail(plugins), Tail(versions))

\* the step just taken ended an updateAll
UpdateAllEnded == "call" \in DOMAIN last

\* while updateAll runs: one package-manager update at most, called once the loop
\* has found an outdated plugin and with the ids of all of them; the last reset is
\* started once that update has succeeded
UpdateAllRunning ==
    LET op == ops[UPDATE_ALL_ID]
    IN  /\ Len(op.ext) <= 1
        /\ op.pc \in {"idle", "list", "getVersion"} => op.ext = <<>>
        /\ op.pc \in {"updating", "awaitReset"} =>
              /\ Len(op.versions) = Len(op.plugins)
              /\ OutdatedOf(op.plugins, op.versions) # <<>>
              /\ Len(op.ext) = 1
              /\ op.ext[1].call = "updatePackage"
              /\ op.ext[1].ids = Ids(OutdatedOf(op.plugins, op.versions))
        /\ \A r \in DOMAIN resets :
              resets[r].cont.op = "updateAllReset" =>
                  /\ op.pc = "awaitReset"
                  /\ op.ext[1].status = "ok"
                  /\ resets[r].file = Cwd

\* when updateAll returns with outdated plugins: they are what it returns, the
\* package manager has updated them in one call and the reset came after
UpdateAllReturnedSome ==
    (UpdateAllEnded /\ last.done.outcome = "returned"
       /\ OutdatedOf(last.call.plugins, last.call.versions) # <<>>)
    => /\ last.call.updated = OutdatedOf(last.call.plugins, last.call.versions)
       /\ Len(last.call.ext) = 1
       /\ last.call.ext[1].ids = Ids(last.call.updated)
       /\ last.call.ext[1].status = "ok"
       /\ last.call.started \in {<<"final">>, <<"list", "final">>}
       /\ last.op = "resetResolved"

\* C20 as stated: updateAll invokes the package manager's update at most once per
\* call, exactly when a discovered plugin is outdated and with all outdated ids;
\* with none outdated it returns an empty list, invokes no package manager and
\* starts no reset; with some outdated the reset starts after the update has
\* completed and the outdated plugins are returned.
C20_UpdateAllOnce ==
    /\ UpdateAllRunning
    /\ UpdateAllReturnedSome
    /\ (UpdateAllEnded /\ last.done.outcome = "returned"
          /\ OutdatedOf(last.call.plugins, last.call.versions) = <<>>)
       => /\ last.call.updated = <<>>
          /\ last.call.ext = <<>>
          /\ last.call.started = <<>>

\* C20 amended: as C20, but with none outdated updateAll starts no reset of its
\* own; the one reset it can have started is the one its discovery starts, and
\* awaits, for a workspace that has no plugin API instance and whose plugin list
\* changed.
C20_UpdateAllOnceAmended ==
    /\ UpdateAllRunning
    /\ UpdateAllReturnedSome
    /\ (UpdateAllEnded /\ last.done.outcome = "returned"
          /\ OutdatedOf(last.call.plugins, last.call.versions) = <<>>)
       => /\ last.call.updated = <<>>
          /\ last.call.ext = <<>>
          /\ last.call.started \in {<<>>, <<"list">>}
    /\ \A r \in DOMAIN resets :
          resets[r].cont.op = "updateAllList" =>
              /\ ops[UPDATE_ALL_ID].pc = "list"
              /\ ops[UPDATE_ALL_ID].started = <<"list">>
              /\ resets[r].prior = 0
              /\ resets[r].cont.wrote
              /\ ~resets[r].cont.cached

\* updateAll has asked for the version of a plugin, found nothing outdated and
\* returned, having started the reset of its discovery
C20_Witness ==
    /\ UpdateAllEnded
    /\ last.done.outcome = "returned"
    /\ Len(last.call.plugins) >= 1
    /\ Len(last.call.versions) = Len(last.call.plugins)
    /\ last.call.updated = <<>>
    /\ last.call.started = <<"list">>

\* updateAll has updated two outdated plugins in one call and returned them
C20_WitnessSome ==
    /\ UpdateAllEnded
    /\ last.done.outcome = "returned"
    /\ Len(last.call.updated) = 2
    /\ Len(last.call.ext[1].ids) = 2

----------------------------------------------------------------------------
(* Properties of the loading marker *)

\* the kinds of module the PluginApi has been run with
KindsLoaded(a) == {a.loaded[i].kind : i \in DOMAIN a.loaded}

\* C21: pluginApi.pluginId equals the plugin's id while that plugin's module runs
\* and is null whenever no module invocation is in progress: once runPluginApi has
\* returned it is null, whether the module returned, threw, was missing or exports
\* no function.
C21_MarkerAroundInvocation ==
    \A n \in DOMAIN apis :
        LET a == apis[n]
        IN  /\ a.pluginId = "null"
            /\ Len(a.marks) = Len(a.loaded)
            /\ \A i \in DOMAIN a.marks :
                  /\ a.marks[i].id = a.loaded[i].id
                  /\ a.marks[i].after = "null"
                  /\ a.loaded[i].invoked => a.marks[i].seen = a.loaded[i].id
                  /\ ~a.loaded[i].invoked => a.marks[i].seen = "none"

\* a PluginApi has been run with a module that returned, one that threw and one
\* that exports no function
C21_Witness ==
    \E n \in DOMAIN apis :
        /\ {"ok", "throws", "notfn"} \subseteq KindsLoaded(apis[n])
        /\ \E i \in DOMAIN apis[n].marks :
              apis[n].loaded[i].kind = "throws" /\ apis[n].marks[i].after = "null"

----------------------------------------------------------------------------
(* Properties of the installation state *)

\* null, or undefined as at module load
Unset(v) == v \in {"null", "undefined"}

\* C22: in every reachable state, after any interleaving of install, installLocal,
\* uninstall, runInvoke, update and finishInstall, installationStep is null if
\* currentPluginId is null: while a step is pending the id of the plugin it refers
\* to is still recorded, also across an update of another plugin.
C22_StepHasPluginId ==
    Unset(currentPluginId) => Unset(installationStep)

\* the same, told of update alone: an update that returns while an installation
\* waits in config or diff leaves the installation's plugin id recorded
C22_UpdateKeepsPluginId ==
    ("done" \in DOMAIN last /\ last.done.kind = "update" /\ last.done.outcome = "returned"
       /\ installationStep \in {"config", "diff"})
    => ~Unset(currentPluginId)

----------------------------------------------------------------------------
(* Properties of the first list of a workspace *)

\* the step just taken returned the first list() call for its workspace: no
\* list had read its package.json before
FirstListReturned == last.list.op = "list" /\ last.list.first

\* what the first list leaves behind: a stored plugin list, a reset that has run
\* and, for a compatible project, an instance with the built-in plugin loaded
FirstListLoaded ==
    LET f == last.list.file
    IN  /\ MapHas(pluginsStore, f)
        /\ last.list.startedReset
        /\ last.op = "resetResolved"
        /\ last.reset.result =>
              /\ MapHas(pluginApiInstances, f)
              /\ Len(apis[pluginApiInstances[f]].loaded) >= 1
              /\ apis[pluginApiInstances[f]].loaded[1].id = BUILTIN_PLUGIN
              /\ apis[pluginApiInstances[f]].loaded[1].invoked

\* C23: the first list call (default options) for a workspace that has never been
\* scanned records a plugin store entry for it and runs resetPluginApi, so that
\* for a compatible project an instance with the built-in plugin loaded exists
\* once list has completed; for every manifest, also one that declares no plugins.
C23_FirstListLoadsInstance ==
    FirstListReturned => FirstListLoaded

\* the same for the manifests that declare a plugin
C23_FirstListOfPlugins ==
    (FirstListReturned /\ Discover(last.list.pkg, last.list.file) # <<>>)
    => FirstListLoaded

====
